---- MODULE Spec2Model ----
(***************************************************************************)
(* Model of the admin page's pipeline-progress aggregation and polling     *)
(* (src/src/pages/AdminPage.tsx): the normalizer and status reducer inside *)
(* fetchBackfillProgress / fetchIndicatorProgress, clampPct,               *)
(* computeOverallPct, the four progress fetchers and their pollers, the    *)
(* pipeline status poller.                                                 *)
(*                                                                         *)
(* Numbers: a percent is kept in TENTHS of a percent (80% is 800, 33.3% is *)
(* 333), so that fractional server values and Math.round are exact integer *)
(* arithmetic. JavaScript values are records [t, s, n]: t is the type tag, *)
(* s the text of a string, n the tenths of a finite number.                *)
(* Status texts are Korean in the source; here they are ASCII glosses.     *)
(***************************************************************************)
EXTENDS Integers, Sequences, FiniteSets, TLC

VARIABLES
    \* ---- AdminPage component state (useState / useRef) ----
    backfillProgressMap,    \* Record<string, SymbolProgress>
    indicatorProgressMap,   \* Record<string, SymbolProgress>
    restProgress,           \* RestSymbolState[]
    websocketProgress,      \* WebSocketSymbolState[]
    showPanel,              \* engine -> BOOLEAN (showBackfillPanel, showRestPanel, ...)
    timer,                  \* poller -> BOOLEAN: the poller's setInterval is armed
    auth,                   \* useAuthCheck(): "checking" | "valid" | "invalid"
    pipelineActive,         \* boolean | null
    engineStatus,           \* {websocket?, backfill?, rest_maintenance?, indicator?}
    pipelineStatusMessage,  \* string
    loading,                \* boolean
    registerMessage,        \* string
    \* ---- environment ----
    documentHidden,         \* document.hidden
    inflight,               \* poller -> number of GET requests not yet resolved
    post,                   \* the POST of an admin action not yet resolved, or "none"
    server,                 \* the pipeline on the server and the answers it has written
    \* ---- TradingMockup component state and the order requests it sent ----
    tradingPage,            \* record of the component's useState values
    orders,                 \* the last order POST: who sent it and its body
    \* ---- the router (ProtectedRoute, MainPage) ----
    localStorage,           \* localStorage.getItem("jwt_token")
    location,               \* [path, jwt_token]: the URL and its jwt_token parameter
    rendered,               \* what the route table shows
    now,                    \* Date.now() / 1000, in whole seconds
    \* ---- history (not program state; no action of the page reads it) ----
    last,                   \* the last fetcher step: [engine, kind, data, before]
    watch,                  \* which events a behaviour records in seen (fixed by Init)
    seen,                   \* what has been recorded of the watched events
    pending,                \* the outstanding backfill requests, oldest first
    \* ---- one call of a pure function ----
    fn, arg, ret

\* the admin actions, and the state of the other pages
actionVars == <<loading, registerMessage, post, server>>
otherPages == <<tradingPage, orders, localStorage, location, rendered, now>>

vars == <<backfillProgressMap, indicatorProgressMap, restProgress,
          websocketProgress, showPanel, timer, auth, pipelineActive,
          engineStatus, pipelineStatusMessage, documentHidden,
          inflight, last, watch, seen, pending, actionVars, otherPages,
          fn, arg, ret>>

pageVars == <<backfillProgressMap, indicatorProgressMap, restProgress,
              websocketProgress, showPanel, timer, auth, pipelineActive,
              engineStatus, pipelineStatusMessage, documentHidden,
              inflight, last, watch, seen, pending, actionVars, otherPages>>

pureVars == <<fn, arg, ret>>

-----------------------------------------------------------------------------
(* JavaScript values *)

Num(n)  == [t |-> "number", s |-> "", n |-> n]
Str(s)  == [t |-> "string", s |-> s, n |-> 0]
Bool(b) == [t |-> "boolean", s |-> "", n |-> IF b THEN 10 ELSE 0]
Null    == [t |-> "null", s |-> "", n |-> 0]
Undef   == [t |-> "undefined", s |-> "", n |-> 0]
NaN     == [t |-> "NaN", s |-> "", n |-> 0]
PosInf  == [t |-> "Infinity", s |-> "", n |-> 0]
NegInf  == [t |-> "-Infinity", s |-> "", n |-> 0]

IsNumber(v) == v.t \in {"number", "NaN", "Infinity", "-Infinity"}
IsFinite(v) == v.t = "number"

Max(a, b) == IF a >= b THEN a ELSE b
Min(a, b) == IF a <= b THEN a ELSE b

\* ToBoolean: the falsy values are false, null, undefined, NaN, 0 and "".
Truthy(v) ==
    CASE v.t = "null"      -> FALSE
      [] v.t = "undefined" -> FALSE
      [] v.t = "NaN"       -> FALSE
      [] v.t = "number"    -> v.n # 0
      [] v.t = "boolean"   -> v.n # 0
      [] v.t = "string"    -> v.s # ""
      [] OTHER             -> TRUE

\* StringToNumber for the strings the payloads of this model carry.
StringToNumber(s) ==
    CASE s = ""          -> Num(0)
      [] s = "80"        -> Num(800)
      [] s = "99.5"      -> Num(995)
      [] s = "250"       -> Num(2500)
      [] s = "-3"        -> Num(-30)
      [] s = "Infinity"  -> PosInf
      [] s = "-Infinity" -> NegInf
      [] OTHER           -> NaN

\* Number(v)
ToNumber(v) ==
    CASE v.t = "null"      -> Num(0)
      [] v.t = "undefined" -> NaN
      [] v.t = "boolean"   -> Num(v.n)
      [] v.t = "string"    -> StringToNumber(v.s)
      [] OTHER             -> v

\* a < b on numbers (false when either is NaN)
NumLess(a, b) ==
    CASE a.t = "NaN" \/ b.t = "NaN"  -> FALSE
      [] a.t = "-Infinity"           -> b.t # "-Infinity"
      [] a.t = "Infinity"            -> FALSE
      [] b.t = "Infinity"            -> TRUE
      [] b.t = "-Infinity"           -> FALSE
      [] OTHER                       -> a.n < b.n

\* a + b on numbers
NumAdd(a, b) ==
    CASE a.t = "NaN" \/ b.t = "NaN"                 -> NaN
      [] a.t = "Infinity" /\ b.t = "-Infinity"      -> NaN
      [] a.t = "-Infinity" /\ b.t = "Infinity"      -> NaN
      [] a.t # "number"                             -> a
      [] b.t # "number"                             -> b
      [] OTHER                                      -> Num(a.n + b.n)

\* Math.round(a / len) for an integer len >= 1: the nearest integer, a tie
\* going up; a non-finite a stays non-finite.
RoundDiv(a, len) ==
    IF a.t # "number" THEN a
    ELSE Num(10 * ((2 * a.n + 10 * len) \div (20 * len)))

-----------------------------------------------------------------------------
(* Constants of the page *)

INTERVAL_ORDER == <<"1h", "4h", "1d", "1w", "1M">>

IntervalKeys == {INTERVAL_ORDER[i] : i \in DOMAIN INTERVAL_ORDER}

CeleryState == {"PENDING", "PROGRESS", "SUCCESS", "FAILURE", "STARTED", "UNKNOWN"}

\* status texts (glosses of the Korean literals)
TXT_WAITING       == "waiting"
TXT_BF_DONE       == "all intervals complete"
TXT_BF_FAILED     == "some failed"
TXT_BF_RUNNING    == "collecting..."
TXT_IND_DONE      == "all interval indicators computed"
TXT_IND_FAILED    == "some indicator computations failed"
TXT_IND_RUNNING   == "computing indicators..."
TXT_DASH          == "-"

-----------------------------------------------------------------------------
(* clampPct and computeOverallPct *)

clampPct_NoUpper(v) ==
    LET num == ToNumber(v) IN
    IF ~IsFinite(num) THEN Num(0) ELSE Num(Max(0, num.n))

clampPct(v) ==
    LET num == ToNumber(v) IN
    IF ~IsFinite(num) \/ num.t = "NaN" THEN Num(0)
    ELSE Num(Max(0, Min(1000, num.n)))

\* reduce((a, b) => a + b, 0) over a sequence of numbers
RECURSIVE SumSeq(_)
SumSeq(q) == IF q = <<>> THEN Num(0) ELSE NumAdd(q[1], SumSeq(Tail(q)))

\* the INTERVAL_ORDER keys that have an entry in p.intervals, in order
PresentKeys(p) ==
    SelectSeq(INTERVAL_ORDER, LAMBDA k : k \in DOMAIN p.intervals)

Percentages_Raw(p) ==
    LET present == PresentKeys(p) IN
    [i \in 1..Len(present) |-> p.intervals[present[i]].pct_time]

\* INTERVAL_ORDER.map(...).filter(x => typeof x === "number")
Percentages(p) ==
    LET present == PresentKeys(p) IN
    [i \in 1..Len(present) |->
        LET iv == p.intervals[present[i]] IN
        IF iv.state = Str("SUCCESS") /\ NumLess(iv.pct_time, Num(1000))
        THEN Num(1000) ELSE iv.pct_time]

computeOverallPct_Floor(p) ==
    LET percentages == Percentages(p)
        sum == SumSeq(percentages) IN
    IF Len(percentages) = 0 THEN Num(0)
    ELSE Num(10 * (sum.n \div (10 * Len(percentages))))

computeOverallPct(p) ==
    LET percentages == Percentages(p) IN
    IF Len(percentages) = 0 THEN Num(0)
    ELSE LET sum == SumSeq(percentages) IN
         RoundDiv(sum, Len(percentages))

-----------------------------------------------------------------------------
(* Normalizer and status reducer (inside the two progress fetchers) *)

\* (x as CeleryState) || "UNKNOWN"
OrUnknown(x) == IF Truthy(x) THEN x ELSE Str("UNKNOWN")

\* Object.values(intervals).map(x => x.state), as a set
StatesOf(intervals) == {intervals[k].state : k \in DOMAIN intervals}

\* fetchBackfillProgress: for (const [intv, row] of Object.entries(sym.intervals))
BackfillIntervals(sym) ==
    [intv \in DOMAIN sym.intervals |->
        LET row == sym.intervals[intv] IN
        [interval |-> intv,
         state    |-> OrUnknown(row.state),
         pct_time |-> clampPct(row.pct_time)]]

BackfillReduce_FailureLast(intervals) ==
    LET states == StatesOf(intervals) IN
    IF DOMAIN intervals = {} THEN [state |-> "UNKNOWN", status |-> TXT_WAITING]
    ELSE IF \A s \in states : s = Str("SUCCESS")
         THEN [state |-> "SUCCESS", status |-> TXT_BF_DONE]
    ELSE IF \E s \in states : s = Str("PROGRESS") \/ s = Str("STARTED")
         THEN [state |-> "PROGRESS", status |-> TXT_BF_RUNNING]
    ELSE IF \E s \in states : s = Str("FAILURE")
         THEN [state |-> "FAILURE", status |-> TXT_BF_FAILED]
    ELSE IF \A s \in states : s = Str("PENDING")
         THEN [state |-> "PENDING", status |-> TXT_WAITING]
    ELSE [state |-> "UNKNOWN", status |-> TXT_DASH]

BackfillReduce_SomeSuccess(intervals) ==
    LET states == StatesOf(intervals) IN
    IF DOMAIN intervals = {} THEN [state |-> "UNKNOWN", status |-> TXT_WAITING]
    ELSE IF \E s \in states : s = Str("SUCCESS")
         THEN [state |-> "SUCCESS", status |-> TXT_BF_DONE]
    ELSE IF \E s \in states : s = Str("FAILURE")
         THEN [state |-> "FAILURE", status |-> TXT_BF_FAILED]
    ELSE IF \E s \in states : s = Str("PROGRESS") \/ s = Str("STARTED")
         THEN [state |-> "PROGRESS", status |-> TXT_BF_RUNNING]
    ELSE IF \A s \in states : s = Str("PENDING")
         THEN [state |-> "PENDING", status |-> TXT_WAITING]
    ELSE [state |-> "UNKNOWN", status |-> TXT_DASH]

BackfillReduce_StartedKept(intervals) ==
    LET states == StatesOf(intervals) IN
    IF DOMAIN intervals = {} THEN [state |-> "UNKNOWN", status |-> TXT_WAITING]
    ELSE IF \A s \in states : s = Str("SUCCESS")
         THEN [state |-> "SUCCESS", status |-> TXT_BF_DONE]
    ELSE IF \E s \in states : s = Str("FAILURE")
         THEN [state |-> "FAILURE", status |-> TXT_BF_FAILED]
    ELSE IF \E s \in states : s = Str("PROGRESS")
         THEN [state |-> "PROGRESS", status |-> TXT_BF_RUNNING]
    ELSE IF \E s \in states : s = Str("STARTED")
         THEN [state |-> "STARTED", status |-> TXT_BF_RUNNING]
    ELSE IF \A s \in states : s = Str("PENDING")
         THEN [state |-> "PENDING", status |-> TXT_WAITING]
    ELSE [state |-> "UNKNOWN", status |-> TXT_DASH]

BackfillReduce_NoEmptyCheck(intervals) ==
    LET states == StatesOf(intervals) IN
    IF \A s \in states : s = Str("SUCCESS")
         THEN [state |-> "SUCCESS", status |-> TXT_BF_DONE]
    ELSE IF \E s \in states : s = Str("FAILURE")
         THEN [state |-> "FAILURE", status |-> TXT_BF_FAILED]
    ELSE IF \E s \in states : s = Str("PROGRESS") \/ s = Str("STARTED")
         THEN [state |-> "PROGRESS", status |-> TXT_BF_RUNNING]
    ELSE IF \A s \in states : s = Str("PENDING")
         THEN [state |-> "PENDING", status |-> TXT_WAITING]
    ELSE [state |-> "UNKNOWN", status |-> TXT_DASH]

BackfillReduce_NoSuccessPending(intervals) ==
    LET states == StatesOf(intervals) IN
    IF DOMAIN intervals = {} THEN [state |-> "UNKNOWN", status |-> TXT_WAITING]
    ELSE IF \A s \in states : s = Str("SUCCESS")
         THEN [state |-> "SUCCESS", status |-> TXT_BF_DONE]
    ELSE IF \E s \in states : s = Str("FAILURE")
         THEN [state |-> "FAILURE", status |-> TXT_BF_FAILED]
    ELSE IF \E s \in states : s = Str("PROGRESS") \/ s = Str("STARTED")
         THEN [state |-> "PROGRESS", status |-> TXT_BF_RUNNING]
    ELSE IF \A s \in states : s = Str("PENDING") \/ s = Str("SUCCESS")
         THEN [state |-> "PENDING", status |-> TXT_WAITING]
    ELSE [state |-> "UNKNOWN", status |-> TXT_DASH]

\* fetchBackfillProgress: the if-chain that sets sp.state and sp.status
BackfillReduce(intervals) ==
    LET states == StatesOf(intervals) IN
    IF DOMAIN intervals = {} THEN [state |-> "UNKNOWN", status |-> TXT_WAITING]
    ELSE IF \A s \in states : s = Str("SUCCESS")
         THEN [state |-> "SUCCESS", status |-> TXT_BF_DONE]
    ELSE IF \E s \in states : s = Str("FAILURE")
         THEN [state |-> "FAILURE", status |-> TXT_BF_FAILED]
    ELSE IF \E s \in states : s = Str("PROGRESS") \/ s = Str("STARTED")
         THEN [state |-> "PROGRESS", status |-> TXT_BF_RUNNING]
    ELSE IF \A s \in states : s = Str("PENDING")
         THEN [state |-> "PENDING", status |-> TXT_WAITING]
    ELSE [state |-> "UNKNOWN", status |-> TXT_DASH]

BackfillSymbolProgress_ReduceKnown(sym) ==
    LET intervals == BackfillIntervals(sym)
        known == [k \in DOMAIN intervals \cap IntervalKeys |-> intervals[k]]
        r == BackfillReduce(known) IN
    [symbol |-> sym.symbol, state |-> r.state, status |-> r.status,
     intervals |-> intervals]

\* fetchBackfillProgress: the body of Object.values(data.symbols).forEach
BackfillSymbolProgress(sym) ==
    LET intervals == BackfillIntervals(sym)
        r == BackfillReduce(intervals) IN
    [symbol |-> sym.symbol, state |-> r.state, status |-> r.status,
     intervals |-> intervals]

\* The order in which Object.values / Object.entries walk a payload object:
\* the order its keys were inserted, here the order of this list.
PayloadKeyOrder == <<"1h", "4h", "1M", "5m">>

PayloadKeys == {PayloadKeyOrder[i] : i \in DOMAIN PayloadKeyOrder}

KeyRank(k) == CHOOSE i \in DOMAIN PayloadKeyOrder : PayloadKeyOrder[i] = k

\* fetchIndicatorProgress: Object.values(sym.intervals).forEach(iv => intervals[iv.interval] = ...):
\* the entry of a key is written by the last record that names it.
IndicatorIntervals(sym) ==
    LET keys == DOMAIN sym.intervals
        named == {sym.intervals[k].interval : k \in keys} IN
    [interval \in named |->
        LET k  == CHOOSE k \in keys :
                     /\ sym.intervals[k].interval = interval
                     /\ \A j \in keys : sym.intervals[j].interval = interval
                                            => KeyRank(j) <= KeyRank(k)
            iv == sym.intervals[k] IN
        [interval |-> interval,
         state    |-> OrUnknown(iv.state),
         pct_time |-> clampPct(iv.pct_time)]]

\* fetchIndicatorProgress: the if-chain that sets sp.state and sp.status
IndicatorReduce(intervals) ==
    LET states == StatesOf(intervals) IN
    IF DOMAIN intervals = {} THEN [state |-> "UNKNOWN", status |-> TXT_WAITING]
    ELSE IF \A s \in states : s = Str("SUCCESS")
         THEN [state |-> "SUCCESS", status |-> TXT_IND_DONE]
    ELSE IF \E s \in states : s = Str("FAILURE")
         THEN [state |-> "FAILURE", status |-> TXT_IND_FAILED]
    ELSE IF \E s \in states : s = Str("PROGRESS") \/ s = Str("STARTED")
         THEN [state |-> "PROGRESS", status |-> TXT_IND_RUNNING]
    ELSE IF \A s \in states : s = Str("PENDING")
         THEN [state |-> "PENDING", status |-> TXT_WAITING]
    ELSE [state |-> "UNKNOWN", status |-> TXT_DASH]

\* fetchIndicatorProgress: the body of Object.values(data.symbols).forEach
IndicatorSymbolProgress(sym) ==
    LET intervals == IndicatorIntervals(sym)
        r == IndicatorReduce(intervals) IN
    [symbol |-> sym.symbol, state |-> r.state, status |-> r.status,
     intervals |-> intervals]

-----------------------------------------------------------------------------
(* Server payloads, bounded *)

\* the most interval records one symbol of a payload carries
MaxIntervals == 2

\* state values a server record may carry: the six known ones, one outside
\* them, and the falsy ones
RawStates ==
    {Str(c) : c \in CeleryState} \cup {Str("RETRY"), Str(""), Null}

\* pct_time values a server record may carry
RawPcts ==
    {Undef, Num(333), Num(800), Num(810), Num(1000), Num(1500), Str("99.5"), Str("n/a")}

\* every input tried on clampPct alone
ClampInputs ==
    RawPcts \cup {Num(-500), Num(-1), Num(0), Num(1), Num(995), Num(1001),
                  Null, NaN, PosInf, NegInf, Bool(TRUE), Bool(FALSE),
                  Str(""), Str("80"), Str("250"), Str("-3"), Str("Infinity"),
                  Str("-Infinity")}

\* (state, pct_time) pairs of a server record: every state with one percent,
\* and every percent with a SUCCESS and with a PROGRESS state (the percent is
\* read only by clampPct and by computeOverallPct, which asks of the state no
\* more than whether it is SUCCESS)
RawStatePct ==
    {<<st, Num(800)>> : st \in RawStates}
    \cup {<<Str("SUCCESS"), pc>> : pc \in RawPcts}
    \cup {<<Str("PROGRESS"), pc>> : pc \in RawPcts}

\* interval maps of a symbol payload: each record sits under its own interval
\* key, as the backend's shape { [interval]: {interval, state, pct_time} } says
RawIntervalMaps ==
    UNION { [K -> RawStatePct] :
              K \in {K \in SUBSET PayloadKeys : Cardinality(K) <= MaxIntervals} }

RawSymbol(name, m) ==
    [symbol |-> name,
     intervals |-> [k \in DOMAIN m |->
                      [interval |-> k, state |-> m[k][1], pct_time |-> m[k][2]]]]

RawSymbols == {RawSymbol("BTCUSDT", m) : m \in RawIntervalMaps}

-----------------------------------------------------------------------------
(* Calls of the pure functions: SpecPure *)

NoPanel == [e \in {"backfill", "rest", "indicator", "websocket"} |-> FALSE]
NoTimer == [p \in {"backfill", "rest", "indicator", "websocket", "status"} |-> FALSE]
NoRequest == [p \in {"backfill", "rest", "indicator", "websocket", "status"} |-> 0]
NoStep == [engine |-> "none", kind |-> "none", noRunId |-> FALSE,
           sentSymbols |-> FALSE, hadData |-> FALSE]

\* the pipeline on the server: off, and no /pipeline/status answer written
ServerInit == [active |-> FALSE]

\* TradingMockup: the initial values of its useState calls
TradingInit ==
    [orderType |-> "LIMIT", price |-> "0.00", markPrice |-> "0.00",
     amount |-> "", leverage |-> 20, brackets |-> <<>>, maxLeverage |-> 125,
     tempLeverage |-> 20, isLeverageModalOpen |-> FALSE,
     bracketsPending |-> TRUE, hasInitializedPrice |-> FALSE,
     authChecked |-> FALSE, userData |-> Null,
     accounts |-> <<>>, selectedAccount |-> Null,
     positions |-> <<>>, positionsRequested |-> FALSE,
     isCloseModalOpen |-> FALSE, closeModalData |-> Null,
     closePriceInput |-> ""]

NoOrder == [by |-> "none", sent |-> FALSE, body |-> <<>>]

\* the browser at the start: nothing stored, the landing page shown
OtherPagesInit ==
    /\ tradingPage = TradingInit
    /\ orders = NoOrder
    /\ localStorage = Null
    /\ location = [path |-> "/", jwt_token |-> Null]
    /\ rendered = "App"
    /\ now = 1

\* AdminPage: the initial values of its useState calls
AdminInit ==
    /\ backfillProgressMap = <<>>
    /\ indicatorProgressMap = <<>>
    /\ restProgress = <<>>
    /\ websocketProgress = <<>>
    /\ showPanel = NoPanel
    /\ timer = NoTimer
    /\ auth = "checking"
    /\ pipelineActive = Null
    /\ engineStatus = <<>>
    /\ pipelineStatusMessage = ""
    /\ documentHidden = FALSE
    /\ inflight = NoRequest
    /\ loading = FALSE
    /\ registerMessage = ""
    /\ post = "none"
    /\ server = ServerInit

PageInit ==
    /\ AdminInit
    /\ OtherPagesInit

\* nothing has been recorded yet
NoHistory ==
    /\ last = NoStep
    /\ watch = "fetch"
    /\ seen = "none"
    /\ pending = <<>>

PureIdle == fn = "idle" /\ arg = Undef /\ ret = Undef

InitPure ==
    /\ PageInit
    /\ NoHistory
    /\ \/ fn = "symbol" /\ arg \in RawSymbols
       \/ fn = "value" /\ arg \in ClampInputs
    /\ ret = Undef

\* one symbol of a backfill response goes through the normalizer and reducer
CallBackfillSymbol ==
    /\ fn = "symbol"
    /\ fn' = "backfillSymbol"
    /\ ret' = BackfillSymbolProgress(arg)
    /\ UNCHANGED <<arg, pageVars>>

\* one symbol of an indicator response goes through the normalizer and reducer
CallIndicatorSymbol ==
    /\ fn = "symbol"
    /\ fn' = "indicatorSymbol"
    /\ ret' = IndicatorSymbolProgress(arg)
    /\ UNCHANGED <<arg, pageVars>>

\* backfillRows / indicatorRows: computeOverallPct(p) of a normalized symbol
CallComputeOverallPct ==
    /\ fn \in {"backfillSymbol", "indicatorSymbol"}
    /\ fn' = "computeOverallPct"
    /\ arg' = ret
    /\ ret' = computeOverallPct(ret)
    /\ UNCHANGED pageVars

CallClampPct ==
    /\ fn = "value"
    /\ fn' = "clampPct"
    /\ ret' = clampPct(arg)
    /\ UNCHANGED <<arg, pageVars>>

NextPure ==
    \/ CallBackfillSymbol
    \/ CallIndicatorSymbol
    \/ CallComputeOverallPct
    \/ CallClampPct

SpecPure == InitPure /\ [][NextPure]_vars

-----------------------------------------------------------------------------
(* The admin page: the progress fetchers, the status fetcher, their pollers *)

Engines == {"backfill", "rest", "indicator", "websocket"}

\* the panels whose opening starts a poller (the backfill poller starts with
\* the page, not with its panel)
PanelPolled == {"rest", "indicator", "websocket"}

\* the most GET requests to the progress endpoints outstanding at one time
MaxInFlight == 2

SymbolOrder == <<"BTCUSDT", "ETHUSDT">>

\* Object.values(o) of a payload object o: its values in insertion order
ObjectValues(o, order) ==
    LET keys == SelectSeq(order, LAMBDA k : k \in DOMAIN o) IN
    [i \in 1..Len(keys) |-> o[keys[i]]]

\* payload records of the server
Row(k, st, pc) == [interval |-> k, state |-> st, pct_time |-> pc]
WsRow(k, st, mc) == [interval |-> k, state |-> st, message_count |-> mc]
Sym(name, rows) == [symbol |-> name, intervals |-> rows]
Response(run_id, hasSymbols, symbols) ==
    [run_id |-> run_id, hasSymbols |-> hasSymbols, symbols |-> symbols]

\* symbols fields of backfill responses
BackfillSymbols ==
    { "BTCUSDT" :> Sym("BTCUSDT", "1h" :> Row("1h", Str("SUCCESS"), Num(800)))
        @@ "ETHUSDT" :> Sym("ETHUSDT", "1h" :> Row("1h", Str("SUCCESS"), Num(1000))
                                        @@ "5m" :> Row("5m", Str("FAILURE"), Num(333))),
      "BTCUSDT" :> Sym("BTCUSDT", "1h" :> Row("1h", Str("STARTED"), Undef)
                                  @@ "4h" :> Row("4h", Str("PENDING"), Num(0)))
        @@ "ETHUSDT" :> Sym("ETHUSDT", <<>>) }

\* symbols fields of indicator responses
IndicatorSymbols ==
    { "BTCUSDT" :> Sym("BTCUSDT", "1h" :> Row("1h", Str("FAILURE"), Num(333))
                                  @@ "5m" :> Row("5m", Str("SUCCESS"), Num(1500)))
        @@ "ETHUSDT" :> Sym("ETHUSDT", "1h" :> Row("1h", Str("SUCCESS"), Num(800))
                                        @@ "4h" :> Row("4h", Str(""), Num(810))) }

\* the responses of a progress endpoint, given the symbols fields it may
\* carry: with a run_id, with a null run_id, without run_id, without symbols
Responses(symbolMaps) ==
    {Response(Str("run-1"), TRUE, m) : m \in symbolMaps}
    \cup {Response(Null, TRUE, m) : m \in symbolMaps}
    \cup {Response(Undef, TRUE, <<>>), Response(Str("run-1"), FALSE, <<>>)}

RestSymbols ==
    { "BTCUSDT" :> Sym("BTCUSDT", "1h" :> Row("1h", Str("SUCCESS"), Undef)
                                  @@ "4h" :> Row("4h", Null, Undef)) }

WebsocketSymbols ==
    { "BTCUSDT" :> Sym("BTCUSDT", "1h" :> WsRow("1h", Str("CONNECTED"), Num(30))
                                  @@ "4h" :> WsRow("4h", Str("ERROR"), Undef)) }

\* what GET /pipeline/<engine>/progress may answer
ResponsesOf(e) ==
    CASE e = "backfill"  -> Responses(BackfillSymbols)
      [] e = "indicator" -> Responses(IndicatorSymbols)
      [] e = "rest"      -> Responses(RestSymbols)
      [] e = "websocket" -> Responses(WebsocketSymbols)

\* !data.run_id || !data.symbols
NothingInProgress(data) == ~Truthy(data.run_id) \/ ~data.hasSymbols

BackfillNext_KeepOnNoRun(data) ==
    IF ~data.hasSymbols THEN <<>>
    ELSE LET syms == {data.symbols[k] : k \in DOMAIN data.symbols} IN
         [name \in {sym.symbol : sym \in syms} |->
            BackfillSymbolProgress(CHOOSE sym \in syms : sym.symbol = name)]

\* fetchBackfillProgress, the try block after the await: the value given to
\* setBackfillProgressMap (next[sym.symbol] = sp for each symbol; every
\* symbol record of a payload carries its own key as symbol)
BackfillNext(data) ==
    IF NothingInProgress(data) THEN <<>>
    ELSE LET syms == {data.symbols[k] : k \in DOMAIN data.symbols} IN
         [name \in {sym.symbol : sym \in syms} |->
            BackfillSymbolProgress(CHOOSE sym \in syms : sym.symbol = name)]

\* fetchIndicatorProgress, the try block after the await
IndicatorNext(data) ==
    IF NothingInProgress(data) THEN <<>>
    ELSE LET syms == {data.symbols[k] : k \in DOMAIN data.symbols} IN
         [name \in {sym.symbol : sym \in syms} |->
            IndicatorSymbolProgress(CHOOSE sym \in syms : sym.symbol = name)]

\* fetchRestProgress, the try block after the await
RestItems(data) ==
    IF NothingInProgress(data) THEN <<>>
    ELSE LET syms == ObjectValues(data.symbols, SymbolOrder) IN
         [i \in 1..Len(syms) |->
            LET ivs == ObjectValues(syms[i].intervals, PayloadKeyOrder) IN
            [symbol |-> syms[i].symbol,
             intervals |-> [j \in 1..Len(ivs) |->
                              [interval |-> ivs[j].interval,
                               state |-> OrUnknown(ivs[j].state)]]]]

\* fetchWebsocketProgress, the try block after the await
WebsocketItems(data) ==
    IF NothingInProgress(data) THEN <<>>
    ELSE LET syms == ObjectValues(data.symbols, SymbolOrder) IN
         [i \in 1..Len(syms) |->
            LET ivs == ObjectValues(syms[i].intervals, PayloadKeyOrder) IN
            [symbol |-> syms[i].symbol,
             intervals |-> [j \in 1..Len(ivs) |->
                              [interval |-> ivs[j].interval,
                               state |-> OrUnknown(ivs[j].state),
                               message_count |->
                                   IF Truthy(ivs[j].message_count)
                                   THEN ivs[j].message_count ELSE Num(0)]]]]

\* the progress state the page holds for an engine
ProgressOf(e) ==
    CASE e = "backfill"  -> backfillProgressMap
      [] e = "indicator" -> indicatorProgressMap
      [] e = "rest"      -> restProgress
      [] e = "websocket" -> websocketProgress

\* the progress pollers and the pipeline status poller
Pollers == Engines \cup {"status"}

progressVars == <<backfillProgressMap, indicatorProgressMap, restProgress,
                  websocketProgress>>
statusVars == <<pipelineActive, engineStatus, pipelineStatusMessage>>
histVars == <<last, watch, seen, pending>>

\* the requests to the four progress endpoints not yet resolved
Outstanding ==
    inflight["backfill"] + inflight["rest"] + inflight["indicator"]
        + inflight["websocket"]

\* api.get(...) of a poller's fetcher is sent
Issue(p) == inflight' = [inflight EXCEPT ![p] = @ + 1]

\* status texts of the pipeline status poller (ASCII glosses)
TXT_PIPELINE_ON == "pipeline active"
TXT_PIPELINE_OFF == "pipeline inactive"
TXT_STATUS_FAILED == "pipeline status fetch failed"

EngineStatusOf(active, st) == [is_active |-> active, status |-> st]

\* what GET /pipeline/status may answer
StatusResponses ==
    { [is_active |-> TRUE,
       websocket |-> EngineStatusOf(TRUE, "PROGRESS"),
       backfill |-> EngineStatusOf(TRUE, "SUCCESS"),
       rest_maintenance |-> EngineStatusOf(TRUE, "FAIL"),
       indicator |-> EngineStatusOf(TRUE, "WAIT")],
      [is_active |-> FALSE,
       websocket |-> EngineStatusOf(FALSE, "WAIT"),
       backfill |-> EngineStatusOf(FALSE, "WAIT"),
       rest_maintenance |-> EngineStatusOf(FALSE, "WAIT"),
       indicator |-> EngineStatusOf(FALSE, "UNKNOWN")] }

\* useAuthCheck() ends with a valid login. The effect of lines 476-513 calls
\* fetchPipelineStatus at once and arms pipelinePollRef; the effect of lines
\* 516-522 runs startBackfillPolling, which fetches at once and arms
\* backfillPollRef. Neither looks at document.hidden.
AuthValid ==
    /\ auth = "checking"
    /\ auth' = "valid"
    /\ inflight' = [inflight EXCEPT !["status"] = @ + 1, !["backfill"] = @ + 1]
    /\ timer' = [timer EXCEPT !["status"] = TRUE, !["backfill"] = TRUE]
    /\ UNCHANGED <<progressVars, statusVars, showPanel, documentHidden,
                   actionVars,
                   otherPages, pureVars>>

\* useAuthCheck() ends without a valid login: no effect starts a poller
AuthInvalid ==
    /\ auth = "checking"
    /\ auth' = "invalid"
    /\ UNCHANGED <<progressVars, statusVars, showPanel, timer, documentHidden,
                   inflight, actionVars,
                   otherPages, pureVars>>

\* a click on an engine card: setShowXPanel(true); for the REST, indicator and
\* websocket panels the effect fetches at once and arms the interval
OpenPanel(e) ==
    /\ auth = "valid"
    /\ ~showPanel[e]
    /\ showPanel' = [showPanel EXCEPT ![e] = TRUE]
    /\ IF e \in PanelPolled
       THEN /\ Outstanding < MaxInFlight
            /\ Issue(e)
            /\ timer' = [timer EXCEPT ![e] = TRUE]
       ELSE UNCHANGED <<inflight, timer>>
    /\ UNCHANGED <<progressVars, statusVars, auth, documentHidden, actionVars,
                   otherPages, pureVars>>

ClosePanel_KeepsTimer(e) ==
    /\ showPanel[e]
    /\ showPanel' = [showPanel EXCEPT ![e] = FALSE]
    /\ UNCHANGED timer
    /\ UNCHANGED <<progressVars, statusVars, auth, documentHidden, inflight,
                   actionVars,
                   otherPages, pureVars>>

\* a click on a panel's close button: setShowXPanel(false); the effect's
\* cleanup clears the interval of the REST, indicator and websocket panels
ClosePanel(e) ==
    /\ showPanel[e]
    /\ showPanel' = [showPanel EXCEPT ![e] = FALSE]
    /\ IF e \in PanelPolled
       THEN timer' = [timer EXCEPT ![e] = FALSE]
       ELSE UNCHANGED timer
    /\ UNCHANGED <<progressVars, statusVars, auth, documentHidden, inflight,
                   actionVars,
                   otherPages, pureVars>>

Tick_NoVisibilityCheck(e) ==
    /\ timer[e]
    /\ Outstanding < MaxInFlight
    /\ Issue(e)
    /\ UNCHANGED <<progressVars, statusVars, showPanel, timer, auth,
                   documentHidden, actionVars,
                   otherPages, pureVars>>

Tick_SingleFlight(e) ==
    /\ timer[e]
    /\ ~documentHidden
    /\ inflight[e] = 0
    /\ Outstanding < MaxInFlight
    /\ Issue(e)
    /\ UNCHANGED <<progressVars, statusVars, showPanel, timer, auth,
                   documentHidden, actionVars,
                   otherPages, pureVars>>

\* the interval callback of an engine: if (!document.hidden) fetch()
Tick(e) ==
    /\ timer[e]
    /\ ~documentHidden
    /\ Outstanding < MaxInFlight
    /\ Issue(e)
    /\ UNCHANGED <<progressVars, statusVars, showPanel, timer, auth,
                   documentHidden, actionVars,
                   otherPages, pureVars>>

\* the interval callback of the status poller:
\* if (!document.hidden) void fetchPipelineStatus()
StatusTick ==
    /\ timer["status"]
    /\ ~documentHidden
    /\ inflight["status"] < MaxInFlight
    /\ Issue("status")
    /\ UNCHANGED <<progressVars, statusVars, showPanel, timer, auth,
                   documentHidden, actionVars,
                   otherPages, pureVars>>

\* the tab is hidden or shown again
VisibilityChange ==
    /\ documentHidden' = ~documentHidden
    /\ UNCHANGED <<progressVars, statusVars, showPanel, timer, auth, inflight,
                   actionVars,
                   otherPages, pureVars>>

Resolve_DropsOvertaken(e, data) ==
    /\ inflight[e] > 0
    /\ inflight' = [inflight EXCEPT ![e] = @ - 1]
    /\ IF e = "backfill" /\ \E i \in DOMAIN pending : pending[i].overtaken
       THEN UNCHANGED progressVars
       ELSE /\ backfillProgressMap' =
                  IF e = "backfill" THEN BackfillNext(data)
                  ELSE backfillProgressMap
            /\ indicatorProgressMap' =
                  IF e = "indicator" THEN IndicatorNext(data)
                  ELSE indicatorProgressMap
            /\ restProgress' = IF e = "rest" THEN RestItems(data) ELSE restProgress
            /\ websocketProgress' =
                  IF e = "websocket" THEN WebsocketItems(data)
                  ELSE websocketProgress
    /\ UNCHANGED <<statusVars, showPanel, timer, auth, documentHidden,
                   actionVars,
                   otherPages, pureVars>>

\* the await of a fetcher returns a response: the rest of its try block
Resolve(e, data) ==
    /\ inflight[e] > 0
    /\ inflight' = [inflight EXCEPT ![e] = @ - 1]
    /\ backfillProgressMap' =
           IF e = "backfill" THEN BackfillNext(data) ELSE backfillProgressMap
    /\ indicatorProgressMap' =
           IF e = "indicator" THEN IndicatorNext(data) ELSE indicatorProgressMap
    /\ restProgress' = IF e = "rest" THEN RestItems(data) ELSE restProgress
    /\ websocketProgress' =
           IF e = "websocket" THEN WebsocketItems(data) ELSE websocketProgress
    /\ UNCHANGED <<statusVars, showPanel, timer, auth, documentHidden,
                   actionVars,
                   otherPages, pureVars>>

Reject_ClearsAll(e) ==
    /\ inflight[e] > 0
    /\ inflight' = [inflight EXCEPT ![e] = @ - 1]
    /\ backfillProgressMap' = IF e = "backfill" THEN backfillProgressMap ELSE <<>>
    /\ indicatorProgressMap' = <<>>
    /\ restProgress' = <<>>
    /\ websocketProgress' = <<>>
    /\ UNCHANGED <<statusVars, showPanel, timer, auth, documentHidden,
                   actionVars,
                   otherPages, pureVars>>

Reject_StopsPolling(e) ==
    /\ inflight[e] > 0
    /\ inflight' = [inflight EXCEPT ![e] = @ - 1]
    /\ indicatorProgressMap' =
           IF e = "indicator" THEN <<>> ELSE indicatorProgressMap
    /\ restProgress' = IF e = "rest" THEN <<>> ELSE restProgress
    /\ websocketProgress' = IF e = "websocket" THEN <<>> ELSE websocketProgress
    /\ timer' = [timer EXCEPT ![e] = FALSE]
    /\ UNCHANGED <<backfillProgressMap, statusVars, showPanel, auth,
                   documentHidden, actionVars,
                   otherPages, pureVars>>

\* the await of a fetcher throws (network error, timeout, HTTP error): its
\* catch block. fetchBackfillProgress only logs; the other three also clear.
Reject(e) ==
    /\ inflight[e] > 0
    /\ inflight' = [inflight EXCEPT ![e] = @ - 1]
    /\ indicatorProgressMap' =
           IF e = "indicator" THEN <<>> ELSE indicatorProgressMap
    /\ restProgress' = IF e = "rest" THEN <<>> ELSE restProgress
    /\ websocketProgress' = IF e = "websocket" THEN <<>> ELSE websocketProgress
    /\ UNCHANGED <<backfillProgressMap, statusVars, showPanel, timer, auth,
                   documentHidden, actionVars,
                   otherPages, pureVars>>

\* the await of fetchPipelineStatus returns a response: the rest of its try
\* block
StatusResolve(data) ==
    /\ inflight["status"] > 0
    /\ inflight' = [inflight EXCEPT !["status"] = @ - 1]
    /\ pipelineActive' = Bool(data.is_active)
    /\ engineStatus' = [websocket |-> data.websocket,
                        backfill |-> data.backfill,
                        rest_maintenance |-> data.rest_maintenance,
                        indicator |-> data.indicator]
    /\ pipelineStatusMessage' =
           IF data.is_active THEN TXT_PIPELINE_ON ELSE TXT_PIPELINE_OFF
    /\ UNCHANGED <<progressVars, showPanel, timer, auth, documentHidden,
                   actionVars,
                   otherPages, pureVars>>

\* the await of fetchPipelineStatus throws: its catch block sets the message
StatusReject ==
    /\ inflight["status"] > 0
    /\ inflight' = [inflight EXCEPT !["status"] = @ - 1]
    /\ pipelineStatusMessage' = TXT_STATUS_FAILED
    /\ UNCHANGED <<progressVars, pipelineActive, engineStatus, showPanel,
                   timer, auth, documentHidden, actionVars,
                   otherPages, pureVars>>

-----------------------------------------------------------------------------
(* Spec: the four progress pollers with full payloads. The history variable *)
(* last records the last fetcher step. The responses of the status poller,  *)
(* which write no progress state, are left to SpecPoll.                     *)

Step(e, kind, data) ==
    [engine |-> e, kind |-> kind,
     noRunId |-> kind = "response" /\ ~Truthy(data.run_id),
     sentSymbols |-> kind = "response" /\ DOMAIN data.symbols # {},
     hadData |-> ProgressOf(e) # <<>>]

Init ==
    /\ PageInit
    /\ NoHistory
    /\ PureIdle

Next ==
    \/ AuthValid /\ UNCHANGED histVars
    \/ AuthInvalid /\ UNCHANGED histVars
    \/ \E e \in Engines : OpenPanel(e) /\ UNCHANGED histVars
    \/ \E e \in Engines : ClosePanel(e) /\ UNCHANGED histVars
    \/ \E e \in Engines : Tick(e) /\ UNCHANGED histVars
    \/ VisibilityChange /\ UNCHANGED histVars
    \/ \E e \in Engines : \E data \in ResponsesOf(e) :
          /\ Resolve(e, data)
          /\ last' = Step(e, "response", data)
          /\ UNCHANGED <<watch, seen, pending>>
    \/ \E e \in Engines :
          /\ Reject(e)
          /\ last' = Step(e, "failure", Response(Undef, FALSE, <<>>))
          /\ UNCHANGED <<watch, seen, pending>>

Spec == Init /\ [][Next]_vars

-----------------------------------------------------------------------------
(* SpecPoll and SpecFrame: the five pollers together, with small payloads.  *)
(* The history variable watch, fixed by the initial state, says what a      *)
(* behaviour records in seen:                                               *)
(*   "close"  the panel closed last, while it stays closed                  *)
(*   "issue"  the last request sent: by what, to which poller, and          *)
(*            document.hidden at that moment                                *)
(*   "fail"   the poller whose request failed last, and whether one of its  *)
(*            ticks has sent a request since                                *)
(* These three are the behaviours of SpecPoll, in which every progress      *)
(* response is that of an idle engine (no poller reads the progress state). *)
(* SpecFrame records nothing (watch = "frame") and its progress responses   *)
(* carry data.                                                              *)

Watches == {"close", "issue", "fail"}

NoIssue == [by |-> "none", poller |-> "none", hidden |-> FALSE]
NoFailure == [failed |-> "none", polled |-> FALSE]

NothingSeen(w) ==
    CASE w = "issue" -> NoIssue
      [] w = "fail"  -> NoFailure
      [] OTHER       -> "none"

\* a response with progress data, and a response of an idle engine
DataResponse(e) ==
    Response(Str("run-1"), TRUE,
             CASE e = "backfill"  -> CHOOSE m \in BackfillSymbols :
                                         "5m" \in DOMAIN m["ETHUSDT"].intervals
               [] e = "indicator" -> CHOOSE m \in IndicatorSymbols : TRUE
               [] e = "rest"      -> CHOOSE m \in RestSymbols : TRUE
               [] e = "websocket" -> CHOOSE m \in WebsocketSymbols : TRUE)
IdleResponse == Response(Null, TRUE, <<>>)

PollResponsesOf(e) ==
    IF watch = "frame" THEN {DataResponse(e)} ELSE {IdleResponse}

\* the event kind of poller p is recorded
Observe(kind, p) ==
    /\ seen' =
         CASE watch = "close" ->
                IF kind = "close" THEN p
                ELSE IF kind = "open" /\ seen = p THEN "none"
                ELSE seen
           [] watch = "issue" ->
                IF kind \in {"start", "open", "tick"} /\ inflight'[p] > inflight[p]
                THEN [by |-> kind, poller |-> p, hidden |-> documentHidden]
                ELSE seen
           [] watch = "fail" ->
                IF kind = "failure" THEN [failed |-> p, polled |-> FALSE]
                ELSE IF kind = "tick" /\ seen.failed = p
                     THEN [seen EXCEPT !.polled = TRUE]
                ELSE seen
           [] OTHER -> seen
    /\ UNCHANGED <<last, watch, pending>>

InitPoll ==
    /\ PageInit
    /\ PureIdle
    /\ last = NoStep
    /\ pending = <<>>
    /\ watch \in Watches
    /\ seen = NothingSeen(watch)

NextPoll ==
    \/ AuthValid /\ Observe("start", "backfill")
    \/ AuthInvalid /\ UNCHANGED histVars
    \/ \E e \in Engines : OpenPanel(e) /\ Observe("open", e)
    \/ \E e \in Engines : ClosePanel(e) /\ Observe("close", e)
    \/ \E e \in Engines : Tick(e) /\ Observe("tick", e)
    \/ StatusTick /\ Observe("tick", "status")
    \/ VisibilityChange /\ UNCHANGED histVars
    \/ \E e \in Engines : \E data \in PollResponsesOf(e) :
          Resolve(e, data) /\ Observe("response", e)
    \/ \E e \in Engines : Reject(e) /\ Observe("failure", e)
    \/ \E data \in StatusResponses :
          StatusResolve(data) /\ Observe("response", "status")
    \/ StatusReject /\ Observe("failure", "status")

SpecPoll == InitPoll /\ [][NextPoll]_vars

InitFrame ==
    /\ PageInit
    /\ PureIdle
    /\ last = NoStep
    /\ pending = <<>>
    /\ watch = "frame"
    /\ seen = NothingSeen(watch)

SpecFrame == InitFrame /\ [][NextPoll]_vars

-----------------------------------------------------------------------------
(* SpecRace: the backfill poller alone, with full payloads and requests     *)
(* told apart. pending lists the outstanding backfill requests, oldest      *)
(* first; each entry says whether the response of a request issued later    *)
(* has already been applied, and with which payload. A response may be that *)
(* of any outstanding request. seen records the last response applied.      *)

NotOvertaken == [overtaken |-> FALSE, newer |-> IdleResponse]
NoArrival == [kind |-> "none", stale |-> FALSE, data |-> IdleResponse,
              newer |-> IdleResponse]

RemoveAt(s, i) == SubSeq(s, 1, i - 1) \o SubSeq(s, i + 1, Len(s))

\* a backfill request is sent
ObserveIssue ==
    /\ pending' = Append(pending, NotOvertaken)
    /\ UNCHANGED <<last, watch, seen>>

\* the response data of the i-th outstanding request is applied: the requests
\* issued before it and still outstanding have been overtaken by it
ObserveResponse(i, data) ==
    /\ seen' = [kind |-> "response", stale |-> pending[i].overtaken,
                data |-> data, newer |-> pending[i].newer]
    /\ pending' = RemoveAt([j \in DOMAIN pending |->
                              IF j < i THEN [overtaken |-> TRUE, newer |-> data]
                              ELSE pending[j]], i)
    /\ UNCHANGED <<last, watch>>

\* the i-th outstanding request fails
ObserveFailure(i) ==
    /\ pending' = RemoveAt(pending, i)
    /\ UNCHANGED <<last, watch, seen>>

InitRace ==
    /\ PageInit
    /\ PureIdle
    /\ last = NoStep
    /\ pending = <<>>
    /\ watch = "race"
    /\ seen = NoArrival

NextRace ==
    \/ AuthValid /\ ObserveIssue
    \/ Tick("backfill") /\ ObserveIssue
    \/ VisibilityChange /\ UNCHANGED histVars
    \/ \E i \in DOMAIN pending : \E data \in ResponsesOf("backfill") :
          Resolve("backfill", data) /\ ObserveResponse(i, data)
    \/ \E i \in DOMAIN pending : Reject("backfill") /\ ObserveFailure(i)

SpecRace == InitRace /\ [][NextRace]_vars

-----------------------------------------------------------------------------
(* The trading page (src/src/test.tsx, TradingMockup): order entry          *)

\* parseFloat for the strings the fields of this model hold
parseFloat(s) ==
    CASE s = "100"     -> Num(1000)
      [] s = "-100"    -> Num(-1000)
      [] s = "0"       -> Num(0)
      [] s = "0.00"    -> Num(0)
      [] s = "0.5"     -> Num(5)
      [] s = "50000"   -> Num(500000)
      [] s = "50000.0" -> Num(500000)
      [] OTHER         -> NaN

isNaN(v) == v.t = "NaN"

\* a / b on numbers; a finite quotient is kept as the fraction n / d
Quotient(a, b) ==
    CASE a.t = "NaN" \/ b.t = "NaN"        -> NaN
      [] a.t # "number" /\ b.t # "number"  -> NaN
      [] a.t # "number"                    ->
            IF (a.t = "Infinity") = (b.n >= 0) THEN PosInf ELSE NegInf
      [] b.t # "number"                    -> [t |-> "number", s |-> "", n |-> 0, d |-> 1]
      [] b.n = 0 /\ a.n = 0                -> NaN
      [] b.n = 0 /\ a.n > 0                -> PosInf
      [] b.n = 0 /\ a.n < 0                -> NegInf
      [] OTHER -> [t |-> "number", s |-> "", n |-> a.n, d |-> b.n]

\* q <= 0 for a quotient q
QuotientNotPositive(q) ==
    CASE q.t = "NaN"       -> FALSE
      [] q.t = "Infinity"  -> FALSE
      [] q.t = "-Infinity" -> TRUE
      [] OTHER             -> q.n * q.d <= 0

\* v <= 0 for a number v
NotPositive(v) ==
    CASE v.t = "NaN"       -> FALSE
      [] v.t = "Infinity"  -> FALSE
      [] v.t = "-Infinity" -> TRUE
      [] OTHER             -> v.n <= 0

\* what the user may type in the Size and Price fields
AmountInputs == {"", "100", "-100", "0", "abc"}
PriceInputs == {"50000", "0", "-100", "abc"}

\* markPrice after a ticker message: parseFloat(data.c).toFixed(1)
TickerPrices == {"50000.0", "NaN"}

\* the result of useAuthCheck() once the check is over
UserDatas == {Null, [google_id |-> Undef], [google_id |-> Str("g-1")]}

\* userData?.google_id
GoogleIdOf(u) == IF u = Null THEN Undef ELSE u.google_id

\* accounts and positions of the server
Account(id) == [id |-> id]
AccountLists == {<<>>, <<Account(1), Account(2)>>}
Position(side, lev) ==
    [symbol |-> "BTCUSDT", position_side |-> side, quantity |-> "0.5",
     leverage |-> lev]
PositionLists == {<<>>, <<Position("LONG", 20)>>}

\* the body of an order POST
OrderBody(symbol, side, type, quantity, price, lev, google_id, account_id) ==
    [symbol |-> symbol, side |-> side, type |-> type, quantity |-> quantity,
     price |-> price, leverage |-> lev, google_id |-> google_id,
     account_id |-> account_id]

Sent(by, body) == [by |-> by, sent |-> TRUE, body |-> body]
Refused(by) == [by |-> by, sent |-> FALSE, body |-> <<>>]

tradeFrame == <<backfillProgressMap, indicatorProgressMap, restProgress,
                websocketProgress, showPanel, timer, auth, pipelineActive,
                engineStatus, pipelineStatusMessage, documentHidden, inflight,
                actionVars, localStorage, location, rendered, now, histVars,
                pureVars>>

\* onChange of the Size field
TypeAmount(s) ==
    /\ tradingPage' = [tradingPage EXCEPT !.amount = s]
    /\ UNCHANGED <<orders, tradeFrame>>

\* onChange of the Price field
TypePrice(s) ==
    /\ tradingPage' = [tradingPage EXCEPT !.price = s]
    /\ UNCHANGED <<orders, tradeFrame>>

\* the Limit / Market buttons
SetOrderType(t) ==
    /\ tradingPage' = [tradingPage EXCEPT !.orderType = t]
    /\ UNCHANGED <<orders, tradeFrame>>

\* ws.onmessage of the ticker stream, and the effect that copies the first
\* mark price into the Price field
TickerMessage(p) ==
    /\ tradingPage' =
         IF ~tradingPage.hasInitializedPrice /\ p # "0.00"
         THEN [tradingPage EXCEPT !.markPrice = p, !.price = p,
                                  !.hasInitializedPrice = TRUE]
         ELSE [tradingPage EXCEPT !.markPrice = p]
    /\ UNCHANGED <<orders, tradeFrame>>

\* useAuthCheck() ends its check
AuthChecked(u) ==
    /\ ~tradingPage.authChecked
    /\ tradingPage' = [tradingPage EXCEPT !.authChecked = TRUE, !.userData = u]
    /\ UNCHANGED <<orders, tradeFrame>>

\* fetchAccounts: getAccounts answers data
FetchAccounts(data) ==
    /\ Truthy(GoogleIdOf(tradingPage.userData))
    /\ tradingPage' =
         [tradingPage EXCEPT
            !.accounts = data,
            !.selectedAccount =
                IF Len(data) > 0 /\ tradingPage.selectedAccount = Null
                THEN data[1]
                ELSE tradingPage.selectedAccount,
            !.positionsRequested =
                @ \/ (Len(data) > 0 /\ tradingPage.selectedAccount = Null)]
    /\ UNCHANGED <<orders, tradeFrame>>

\* the Select button of an account in the account modal
SelectAccount(i) ==
    /\ i \in DOMAIN tradingPage.accounts
    /\ tradingPage.selectedAccount # tradingPage.accounts[i]
    /\ tradingPage' = [tradingPage EXCEPT
                          !.selectedAccount = tradingPage.accounts[i],
                          !.positionsRequested = TRUE]
    /\ UNCHANGED <<orders, tradeFrame>>

\* handleDeleteAccount of the selected account, after its fetchAccounts:
\* setSelectedAccount(null); setPositions([])
DeleteSelectedAccount ==
    /\ tradingPage.selectedAccount # Null
    /\ tradingPage' =
         [tradingPage EXCEPT
            !.selectedAccount = Null,
            !.accounts = SelectSeq(@, LAMBDA a :
                                        a # tradingPage.selectedAccount),
            !.positions = <<>>]
    /\ UNCHANGED <<orders, tradeFrame>>

\* fetchPositions: getPositions answers data
PositionsLoaded(data) ==
    /\ tradingPage.positionsRequested
    /\ tradingPage' = [tradingPage EXCEPT !.positions = data,
                                          !.positionsRequested = FALSE]
    /\ UNCHANGED <<orders, tradeFrame>>

\* handleOrderSubmit(side): the values it computes before its checks
OrderQuantity ==
    LET notionalUSDT == parseFloat(tradingPage.amount)
        currentPrice == IF tradingPage.orderType = "LIMIT"
                        THEN parseFloat(tradingPage.price)
                        ELSE parseFloat(tradingPage.markPrice) IN
    Quotient(notionalUSDT, currentPrice)

OrderPrice ==
    IF tradingPage.orderType = "LIMIT" THEN parseFloat(tradingPage.price)
    ELSE Undef

\* handleOrderSubmit: one of its four checks alerts and returns
OrderRefused ==
    \/ isNaN(OrderQuantity) \/ QuotientNotPositive(OrderQuantity)
    \/ /\ tradingPage.orderType = "LIMIT"
       /\ (OrderPrice = Undef \/ isNaN(OrderPrice) \/ NotPositive(OrderPrice))
    \/ ~Truthy(GoogleIdOf(tradingPage.userData))
    \/ tradingPage.selectedAccount = Null

handleOrderSubmit_NoAccountCheck(side) ==
    /\ orders' =
         IF \/ isNaN(OrderQuantity) \/ QuotientNotPositive(OrderQuantity)
            \/ /\ tradingPage.orderType = "LIMIT"
               /\ (OrderPrice = Undef \/ isNaN(OrderPrice)
                                      \/ NotPositive(OrderPrice))
            \/ ~Truthy(GoogleIdOf(tradingPage.userData))
         THEN Refused("handleOrderSubmit")
         ELSE Sent("handleOrderSubmit",
                   OrderBody("BTCUSDT", side, tradingPage.orderType,
                             OrderQuantity, OrderPrice, tradingPage.leverage,
                             tradingPage.userData.google_id,
                             IF tradingPage.selectedAccount = Null THEN Undef
                             ELSE tradingPage.selectedAccount.id))
    /\ UNCHANGED <<tradingPage, tradeFrame>>

\* handleOrderSubmit(side): placeOrder is called when no check refuses
handleOrderSubmit(side) ==
    /\ orders' =
         IF OrderRefused THEN Refused("handleOrderSubmit")
         ELSE Sent("handleOrderSubmit",
                   OrderBody("BTCUSDT", side, tradingPage.orderType,
                             OrderQuantity, OrderPrice, tradingPage.leverage,
                             tradingPage.userData.google_id,
                             tradingPage.selectedAccount.id))
    /\ UNCHANGED <<tradingPage, tradeFrame>>

\* the side of the order that closes a position
ClosingSide(pos) == IF pos.position_side = "LONG" THEN "SELL" ELSE "BUY"

\* handleMarketClose(pos), pos being a row of the positions table
handleMarketClose(i) ==
    /\ i \in DOMAIN tradingPage.positions
    /\ LET pos == tradingPage.positions[i] IN
       orders' =
         IF tradingPage.userData = Null \/ tradingPage.selectedAccount = Null
         THEN Refused("handleMarketClose")
         ELSE Sent("handleMarketClose",
                   OrderBody(pos.symbol, ClosingSide(pos), "MARKET",
                             parseFloat(pos.quantity), Undef, pos.leverage,
                             tradingPage.userData.google_id,
                             tradingPage.selectedAccount.id))
    /\ UNCHANGED <<tradingPage, tradeFrame>>

\* handleLimitCloseClick(pos): the close modal opens with the mark price
handleLimitCloseClick(i) ==
    /\ i \in DOMAIN tradingPage.positions
    /\ ~tradingPage.isCloseModalOpen
    /\ tradingPage' = [tradingPage EXCEPT
                          !.closeModalData = tradingPage.positions[i],
                          !.closePriceInput = tradingPage.markPrice,
                          !.isCloseModalOpen = TRUE]
    /\ UNCHANGED <<orders, tradeFrame>>

\* onChange of the price field of the close modal
TypeClosePrice(s) ==
    /\ tradingPage.isCloseModalOpen
    /\ tradingPage' = [tradingPage EXCEPT !.closePriceInput = s]
    /\ UNCHANGED <<orders, tradeFrame>>

\* submitLimitClose: the Confirm button of the close modal
submitLimitClose ==
    /\ tradingPage.isCloseModalOpen
    /\ LET limitPrice == parseFloat(tradingPage.closePriceInput)
           pos == tradingPage.closeModalData IN
       IF \/ tradingPage.userData = Null
          \/ tradingPage.selectedAccount = Null
          \/ pos = Null
          \/ isNaN(limitPrice) \/ NotPositive(limitPrice)
       THEN /\ orders' = Refused("submitLimitClose")
            /\ UNCHANGED tradingPage
       ELSE /\ orders' =
                 Sent("submitLimitClose",
                      OrderBody(pos.symbol, ClosingSide(pos), "LIMIT",
                                parseFloat(pos.quantity), limitPrice,
                                pos.leverage, tradingPage.userData.google_id,
                                tradingPage.selectedAccount.id))
            /\ tradingPage' = [tradingPage EXCEPT !.isCloseModalOpen = FALSE,
                                                  !.closeModalData = Null,
                                                  !.closePriceInput = ""]
    /\ UNCHANGED tradeFrame

\* a LeverageBracket, and the lists getLeverageBrackets may answer, ordered
\* from the highest initial_leverage to the lowest
Bracket(lev, notional) == [initial_leverage |-> lev, max_notional |-> notional]
BracketLists ==
    {<<>>,
     <<Bracket(125, 50000), Bracket(100, 250000), Bracket(50, 1000000)>>,
     <<Bracket(100, 250000), Bracket(50, 1000000)>>,
     <<Bracket(10, 50000), Bracket(5, 250000)>>}

\* the effect that fetches the leverage brackets: its .then callback
BracketsLoaded(data) ==
    /\ tradingPage.bracketsPending
    /\ tradingPage' =
         IF Len(data) > 0
         THEN [tradingPage EXCEPT !.bracketsPending = FALSE,
                                  !.brackets = data,
                                  !.maxLeverage = data[1].initial_leverage]
         ELSE [tradingPage EXCEPT !.bracketsPending = FALSE]
    /\ UNCHANGED <<orders, tradeFrame>>

\* brackets.find(b => lev <= b.initial_leverage): the first index that fits
RECURSIVE FindBracket(_, _, _)
FindBracket(bs, lev, i) ==
    IF i > Len(bs) THEN 0
    ELSE IF lev <= bs[i].initial_leverage THEN i
    ELSE FindBracket(bs, lev, i + 1)

getMaxPositionForLeverage(lev) ==
    LET bs == tradingPage.brackets IN
    IF Len(bs) > 0
    THEN LET i == FindBracket(bs, lev, 1) IN
         IF i # 0 THEN Num(10 * bs[i].max_notional) ELSE Null
    ELSE Null

openLeverageModal ==
    /\ ~tradingPage.isLeverageModalOpen
    /\ tradingPage' = [tradingPage EXCEPT
                          !.tempLeverage = tradingPage.leverage,
                          !.isLeverageModalOpen = TRUE]
    /\ UNCHANGED <<orders, tradeFrame>>

\* the close button of the leverage modal
closeLeverageModal ==
    /\ tradingPage.isLeverageModalOpen
    /\ tradingPage' = [tradingPage EXCEPT !.isLeverageModalOpen = FALSE]
    /\ UNCHANGED <<orders, tradeFrame>>

\* the minus button: Math.max(1, tempLeverage - 1)
TempLeverageMinus ==
    /\ tradingPage.isLeverageModalOpen
    /\ tradingPage' =
         [tradingPage EXCEPT
            !.tempLeverage = IF @ - 1 >= 1 THEN @ - 1 ELSE 1]
    /\ UNCHANGED <<orders, tradeFrame>>

\* the plus button: Math.min(maxLeverage, tempLeverage + 1)
TempLeveragePlus ==
    /\ tradingPage.isLeverageModalOpen
    /\ tradingPage' =
         [tradingPage EXCEPT
            !.tempLeverage = IF @ + 1 <= tradingPage.maxLeverage THEN @ + 1
                             ELSE tradingPage.maxLeverage]
    /\ UNCHANGED <<orders, tradeFrame>>

\* the range input, min 1 and max maxLeverage: parseInt(e.target.value)
TempLeverageSlide(v) ==
    /\ tradingPage.isLeverageModalOpen
    /\ v >= 1 /\ v <= tradingPage.maxLeverage
    /\ tradingPage' = [tradingPage EXCEPT !.tempLeverage = v]
    /\ UNCHANGED <<orders, tradeFrame>>

confirmLeverage ==
    /\ tradingPage.isLeverageModalOpen
    /\ tradingPage' = [tradingPage EXCEPT
                          !.leverage = tradingPage.tempLeverage,
                          !.isLeverageModalOpen = FALSE]
    /\ UNCHANGED <<orders, tradeFrame>>


-----------------------------------------------------------------------------
(* The trading page: the order form, the accounts and the close buttons     *)

NextOrder ==
    \/ \E s \in AmountInputs : TypeAmount(s)
    \/ \E s \in PriceInputs : TypePrice(s)
    \/ \E t \in {"LIMIT", "MARKET"} : SetOrderType(t)
    \/ \E p \in TickerPrices : TickerMessage(p)
    \/ \E u \in UserDatas : AuthChecked(u)
    \/ \E data \in AccountLists : FetchAccounts(data)
    \/ \E i \in 1..2 : SelectAccount(i)
    \/ DeleteSelectedAccount
    \/ \E data \in PositionLists : PositionsLoaded(data)
    \/ \E side \in {"BUY", "SELL"} : handleOrderSubmit(side)
    \/ \E i \in 1..1 : handleMarketClose(i)
    \/ \E i \in 1..1 : handleLimitCloseClick(i)
    \/ \E s \in {"50000", "abc"} : TypeClosePrice(s)
    \/ submitLimitClose

SpecOrder == Init /\ [][NextOrder]_vars

-----------------------------------------------------------------------------
(* The admin page: the register button and the pipeline toggle              *)

TXT_REGISTER_DONE == "symbol info refreshed"
TXT_REGISTER_FAILED == "failed: symbol refresh failed"
TXT_PIPELINE_STARTED == "pipeline activated"

\* res.data?.message of a POST answer
PostMessages == {Undef, Str("ok")}

\* isPipelineActive = pipelineActive === true
isPipelineActive == pipelineActive = Bool(TRUE)

adminFrame == <<progressVars, engineStatus, showPanel, timer, auth,
                documentHidden, inflight, otherPages, pureVars>>

\* the register button, disabled while loading: handleRegisterSymbols up to
\* its await
handleRegisterSymbols ==
    /\ auth = "valid"
    /\ ~loading
    /\ loading' = TRUE
    /\ registerMessage' = ""
    /\ post' = "register"
    /\ UNCHANGED <<pipelineActive, pipelineStatusMessage, server, adminFrame>>

\* handleRegisterSymbols: the POST answers, then the finally block
RegisterResolve(msg) ==
    /\ post = "register"
    /\ registerMessage' = IF Truthy(msg) THEN msg.s ELSE TXT_REGISTER_DONE
    /\ loading' = FALSE
    /\ post' = "none"
    /\ UNCHANGED <<pipelineActive, pipelineStatusMessage, server, adminFrame>>

\* handleRegisterSymbols: the POST fails, then the finally block
RegisterReject ==
    /\ post = "register"
    /\ registerMessage' = TXT_REGISTER_FAILED
    /\ loading' = FALSE
    /\ post' = "none"
    /\ UNCHANGED <<pipelineActive, pipelineStatusMessage, server, adminFrame>>

handleStartCollection_NoGuard ==
    /\ auth = "valid"
    /\ ~loading
    /\ loading' = TRUE
    /\ post' = "on"
    /\ UNCHANGED <<pipelineActive, pipelineStatusMessage, registerMessage,
                   server, adminFrame>>

\* the toggle button, disabled while loading, calls handleStartCollection
\* when isPipelineActive is false: the handler up to its await
handleStartCollection ==
    /\ auth = "valid"
    /\ ~loading
    /\ ~isPipelineActive
    /\ loading' = TRUE
    /\ post' = "on"
    /\ UNCHANGED <<pipelineActive, pipelineStatusMessage, registerMessage,
                   server, adminFrame>>

\* POST /pipeline/on answers: the server runs the pipeline
StartResolve(msg) ==
    /\ post = "on"
    /\ server' = [server EXCEPT !.active = TRUE]
    /\ pipelineActive' = Bool(TRUE)
    /\ pipelineStatusMessage' =
           IF Truthy(msg) THEN msg.s ELSE TXT_PIPELINE_STARTED
    /\ loading' = FALSE
    /\ post' = "none"
    /\ UNCHANGED <<registerMessage, adminFrame>>

StartReject_NoFinally ==
    /\ post = "on"
    /\ pipelineActive' = Bool(FALSE)
    /\ post' = "none"
    /\ UNCHANGED <<loading, pipelineStatusMessage, registerMessage, server,
                   adminFrame>>

\* POST /pipeline/on fails
StartReject ==
    /\ post = "on"
    /\ pipelineActive' = Bool(FALSE)
    /\ loading' = FALSE
    /\ post' = "none"
    /\ UNCHANGED <<pipelineStatusMessage, registerMessage, server, adminFrame>>

\* the toggle button calls handleStopCollection when isPipelineActive is
\* true: the handler up to its await
handleStopCollection ==
    /\ auth = "valid"
    /\ ~loading
    /\ isPipelineActive
    /\ loading' = TRUE
    /\ post' = "off"
    /\ UNCHANGED <<pipelineActive, pipelineStatusMessage, registerMessage,
                   server, adminFrame>>

\* POST /pipeline/off answers: the server stops the pipeline
StopResolve ==
    /\ post = "off"
    /\ server' = [server EXCEPT !.active = FALSE]
    /\ pipelineActive' = Bool(FALSE)
    /\ loading' = FALSE
    /\ post' = "none"
    /\ UNCHANGED <<pipelineStatusMessage, registerMessage, adminFrame>>

\* POST /pipeline/off fails
StopReject ==
    /\ post = "off"
    /\ loading' = FALSE
    /\ post' = "none"
    /\ UNCHANGED <<pipelineActive, pipelineStatusMessage, registerMessage,
                   server, adminFrame>>

\* GET /pipeline/status is answered with the state the pipeline has when the
\* server handles the request
StatusOf(active) == CHOOSE data \in StatusResponses : data.is_active = active

\* the answers to status requests on their way to the page
ServerAnswersStatus ==
    /\ Len(pending) < inflight["status"]
    /\ pending' = Append(pending, server.active)
    /\ UNCHANGED <<last, watch, seen, progressVars, statusVars, showPanel,
                   timer, auth, documentHidden, inflight, actionVars,
                   otherPages, pureVars>>

\* the answer at position i arrives
StatusArrives(i) ==
    /\ pending' = RemoveAt(pending, i)
    /\ UNCHANGED <<last, watch>>

\* what the last step of the admin actions was
Did(kind) == seen' = kind /\ UNCHANGED <<last, watch, pending>>

InitAdmin ==
    /\ PageInit
    /\ PureIdle
    /\ last = NoStep
    /\ pending = <<>>
    /\ watch = "admin"
    /\ seen = "none"

NextAdmin ==
    \/ AuthValid /\ Did("auth")
    \/ StatusTick /\ Did("tick")
    \/ ServerAnswersStatus
    \/ \E i \in DOMAIN pending :
          StatusResolve(StatusOf(pending[i])) /\ StatusArrives(i)
                                              /\ seen' = "status"
    \/ StatusReject /\ Len(pending) < inflight["status"]
                    /\ Did("status failed")
    \/ handleRegisterSymbols /\ Did("register issued")
    \/ \E msg \in PostMessages : RegisterResolve(msg) /\ Did("register resolved")
    \/ RegisterReject /\ Did("register rejected")
    \/ handleStartCollection /\ Did("on issued")
    \/ \E msg \in PostMessages : StartResolve(msg) /\ Did("on resolved")
    \/ StartReject /\ Did("on rejected")
    \/ handleStopCollection /\ Did("off issued")
    \/ StopResolve /\ Did("off resolved")
    \/ StopReject /\ Did("off rejected")

SpecAdmin == InitAdmin /\ [][NextAdmin]_vars

\* every POST of the page settles: the axios instance has a timeout
PostSettles ==
    \/ \E msg \in PostMessages : RegisterResolve(msg) /\ Did("register resolved")
    \/ RegisterReject /\ Did("register rejected")
    \/ \E msg \in PostMessages : StartResolve(msg) /\ Did("on resolved")
    \/ StartReject /\ Did("on rejected")
    \/ StopResolve /\ Did("off resolved")
    \/ StopReject /\ Did("off rejected")

SpecAdminFair == SpecAdmin /\ WF_vars(PostSettles)

-----------------------------------------------------------------------------
(* The route table of main.tsx, ProtectedRoute and MainPage                 *)

\* the clock does not run past this many seconds
MaxNow == 3

\* a jwt_token: jwtDecode(token) returns a payload with its exp, or throws
Jwt(exp) == [t |-> "jwt", exp |-> exp]
Garbage == [t |-> "garbage", exp |-> Undef]
Tokens == {Jwt(Num(20)), Jwt(Num(30)), Jwt(Num(0)), Jwt(Undef), Garbage}

\* localStorage at the time the page loads, and the page at "/"
InitRoute ==
    /\ AdminInit
    /\ tradingPage = TradingInit
    /\ orders = NoOrder
    /\ localStorage \in {Null} \cup Tokens
    /\ location = [path |-> "/", jwt_token |-> Null]
    /\ rendered = "App"
    /\ now = 1
    /\ NoHistory
    /\ PureIdle

ProtectedPaths == {"/main", "/admin", "/backtesting"}
Paths == ProtectedPaths \cup {"/", "/signup", "/test", "/nowhere"}

\* the element of the route that matches a path
PageOf(path) ==
    CASE path = "/"            -> "App"
      [] path = "/signup"      -> "SignupPage"
      [] path = "/main"        -> "MainPage"
      [] path = "/admin"       -> "AdminPage"
      [] path = "/backtesting" -> "BacktestingPage"
      [] path = "/test"        -> "TradingMockup"
      [] OTHER                 -> "404 Not Found"

routeFrame == <<progressVars, statusVars, showPanel, timer, auth,
                documentHidden, inflight, actionVars, tradingPage, orders,
                histVars, pureVars>>

\* the browser loads a URL of the site; the login redirect carries the token
\* in the jwt_token parameter of /main
Visit(path, urlToken) ==
    /\ urlToken # Null => path = "/main"
    /\ location' = [path |-> path, jwt_token |-> urlToken]
    /\ rendered' = "routing"
    /\ UNCHANGED <<localStorage, now, routeFrame>>

\* Date.now() advances
ClockTick ==
    /\ now < MaxNow
    /\ now' = now + 1
    /\ UNCHANGED <<localStorage, location, rendered, routeFrame>>

\* the test of ProtectedRoute: the token decodes and its exp is later than now
IsAuthenticated(token) ==
    /\ Truthy(token)
    /\ token.t = "jwt"
    /\ Truthy(token.exp)
    /\ token.exp.n > 10 * now

ProtectedRoute_KeepsToken ==
    /\ rendered = "routing"
    /\ location.path \in ProtectedPaths
    /\ IF IsAuthenticated(localStorage)
       THEN /\ rendered' = PageOf(location.path)
            /\ UNCHANGED <<localStorage, location>>
       ELSE /\ location' = [path |-> "/", jwt_token |-> Null]
            /\ rendered' = "App"
            /\ UNCHANGED localStorage
    /\ UNCHANGED <<now, routeFrame>>

\* ProtectedRoute renders for a protected path: <Outlet /> or
\* <Navigate to="/" replace />, which shows the page of "/"
ProtectedRoute ==
    /\ rendered = "routing"
    /\ location.path \in ProtectedPaths
    /\ IF IsAuthenticated(localStorage)
       THEN /\ rendered' = PageOf(location.path)
            /\ UNCHANGED <<localStorage, location>>
       ELSE /\ localStorage' = Null
            /\ location' = [path |-> "/", jwt_token |-> Null]
            /\ rendered' = "App"
    /\ UNCHANGED <<now, routeFrame>>

\* the routes outside ProtectedRoute
PublicRoute ==
    /\ rendered = "routing"
    /\ location.path \notin ProtectedPaths
    /\ rendered' = PageOf(location.path)
    /\ UNCHANGED <<localStorage, location, now, routeFrame>>

\* MainPage: the effect that moves the token of the URL into localStorage;
\* setSearchParams changes the location and the routes render again
MainPageEffect ==
    /\ rendered = "MainPage"
    /\ Truthy(location.jwt_token)
    /\ localStorage' = location.jwt_token
    /\ location' = [location EXCEPT !.jwt_token = Null]
    /\ rendered' = "routing"
    /\ UNCHANGED <<now, routeFrame>>

\* MainPage: handleLogout
handleLogout ==
    /\ rendered = "MainPage"
    /\ localStorage' = Null
    /\ location' = [path |-> "/", jwt_token |-> Null]
    /\ rendered' = "routing"
    /\ UNCHANGED <<now, routeFrame>>

\* MainPage: handleAdminNavigate
handleAdminNavigate ==
    /\ rendered = "MainPage"
    /\ location' = [path |-> "/admin", jwt_token |-> Null]
    /\ rendered' = "routing"
    /\ UNCHANGED <<localStorage, now, routeFrame>>

NextRoute ==
    \/ \E path \in Paths : \E urlToken \in {Null} \cup Tokens :
          Visit(path, urlToken)
    \/ ClockTick
    \/ ProtectedRoute
    \/ PublicRoute
    \/ MainPageEffect
    \/ handleLogout
    \/ handleAdminNavigate

SpecRoute == InitRoute /\ [][NextRoute]_vars

-----------------------------------------------------------------------------
(* The trading page: the leverage modal and the leverage of an order        *)

\* the leverage modal alone: every leverage is reached with the two buttons
NextLeverage ==
    \/ \E data \in BracketLists : BracketsLoaded(data)
    \/ openLeverageModal
    \/ closeLeverageModal
    \/ TempLeverageMinus
    \/ TempLeveragePlus
    \/ \E v \in {1, 20, 125} : TempLeverageSlide(v)
    \/ confirmLeverage

SpecLeverage == Init /\ [][NextLeverage]_vars

\* a signed-in user with an account and a filled order form sets the
\* leverage with the range input and sends orders
NextSend ==
    \/ AuthChecked([google_id |-> Str("g-1")])
    \/ FetchAccounts(<<Account(1), Account(2)>>)
    \/ TypeAmount("100")
    \/ TickerMessage("50000.0")
    \/ \E data \in BracketLists : BracketsLoaded(data)
    \/ openLeverageModal
    \/ closeLeverageModal
    \/ \E v \in {1, 10, 20, 100, 125} : TempLeverageSlide(v)
    \/ confirmLeverage
    \/ \E side \in {"BUY", "SELL"} : handleOrderSubmit(side)

SpecSend == Init /\ [][NextSend]_vars

-----------------------------------------------------------------------------
(* Properties of the status reducer, checked under SpecPure.                *)
(* In a state with fn = "backfillSymbol" or "indicatorSymbol", arg is one   *)
(* symbol of the response and ret the SymbolProgress stored for it.         *)

Normalized == fn \in {"backfillSymbol", "indicatorSymbol"}

\* the states of the interval records the server sent for the symbol
SentStates == {arg.intervals[k].state : k \in DOMAIN arg.intervals}

AnySent(c) == Str(c) \in SentStates
AllSent(c) == SentStates # {} /\ SentStates = {Str(c)}

\* C1: a symbol with at least one FAILURE interval record gets the derived
\* state FAILURE, whatever the states of its other intervals.
C1_FailureDominates ==
    (Normalized /\ AnySent("FAILURE")) => ret.state = "FAILURE"

C1_Witness ==
    /\ fn = "indicatorSymbol"
    /\ AnySent("FAILURE") /\ AnySent("SUCCESS")
    /\ ret.state = "FAILURE"

\* C2: the derived state is SUCCESS if and only if the symbol has at least one
\* interval record and every interval record has state SUCCESS.
C2_SuccessIffAllSuccess ==
    Normalized => (ret.state = "SUCCESS" <=> AllSent("SUCCESS"))

C2_Witness ==
    /\ fn = "backfillSymbol"
    /\ Cardinality(DOMAIN arg.intervals) = 2
    /\ AllSent("SUCCESS")
    /\ ret.state = "SUCCESS"

\* C3: no FAILURE, not all SUCCESS and at least one PROGRESS or STARTED gives
\* PROGRESS; the derived state is never STARTED.
C3_ProgressOrStarted ==
    Normalized =>
        /\ ret.state # "STARTED"
        /\ (/\ ~AnySent("FAILURE")
            /\ ~AllSent("SUCCESS")
            /\ (AnySent("PROGRESS") \/ AnySent("STARTED")))
           => ret.state = "PROGRESS"

C3_Witness ==
    /\ fn = "backfillSymbol"
    /\ SentStates = {Str("STARTED"), Str("SUCCESS")}
    /\ ret.state = "PROGRESS"

\* C4: a symbol with an empty interval map gets UNKNOWN with the waiting
\* text, not SUCCESS and not PENDING.
C4_EmptyIsUnknownWaiting ==
    (Normalized /\ DOMAIN arg.intervals = {}) =>
        /\ ret.state = "UNKNOWN"
        /\ ret.status = TXT_WAITING
        /\ ret.intervals = <<>>

C4_Witness ==
    /\ fn = "indicatorSymbol"
    /\ DOMAIN arg.intervals = {}
    /\ ret.state = "UNKNOWN"

\* C5: the derived state is PENDING only when there is at least one interval
\* and every interval is PENDING; every other non-empty combination without
\* FAILURE, PROGRESS or STARTED that is not all SUCCESS gives UNKNOWN.
C5_PendingElseUnknown ==
    Normalized =>
        /\ ret.state = "PENDING" => AllSent("PENDING")
        /\ AllSent("PENDING") => ret.state = "PENDING"
        /\ (/\ SentStates # {}
            /\ ~AnySent("FAILURE")
            /\ ~AnySent("PROGRESS") /\ ~AnySent("STARTED")
            /\ ~AllSent("SUCCESS")
            /\ ~AllSent("PENDING"))
           => ret.state = "UNKNOWN"

C5_Witness ==
    /\ fn = "backfillSymbol"
    /\ SentStates = {Str("SUCCESS"), Str("PENDING")}
    /\ ret.state = "UNKNOWN"
    /\ ret.status = TXT_DASH

-----------------------------------------------------------------------------
(* Properties of computeOverallPct and clampPct, checked under SpecPure.    *)
(* In a state with fn = "computeOverallPct", arg is a normalized            *)
(* SymbolProgress and ret the value computeOverallPct returned for it.      *)

\* the present intervals of a SymbolProgress: the keys of the fixed list that
\* have an entry
Present(p) == DOMAIN p.intervals \cap IntervalKeys

\* the tenths of a percent an interval counts for
Counted(iv) ==
    IF iv.state = Str("SUCCESS") /\ iv.pct_time.n < 1000 THEN 1000
    ELSE iv.pct_time.n

RECURSIVE CountedSum(_, _)
CountedSum(p, K) ==
    IF K = {} THEN 0
    ELSE LET k == CHOOSE k \in K : TRUE IN
         Counted(p.intervals[k]) + CountedSum(p, K \ {k})

\* C7: computeOverallPct is 100 when at least one interval is present and
\* every present interval is SUCCESS, whatever raw percent each carries.
C7_AllSuccessIs100 ==
    (/\ fn = "computeOverallPct"
     /\ Present(arg) # {}
     /\ \A k \in Present(arg) : arg.intervals[k].state = Str("SUCCESS"))
    => ret = Num(1000)

C7_Witness ==
    /\ fn = "computeOverallPct"
    /\ DOMAIN arg.intervals = {"1h"}
    /\ arg.intervals["1h"].state = Str("SUCCESS")
    /\ arg.intervals["1h"].pct_time = Num(800)
    /\ ret = Num(1000)

\* C8: computeOverallPct is an integer in 0..100, the mean of the counted
\* percents of the present intervals rounded to the nearest integer, and 0
\* when no interval is present.
C8_RoundedMean ==
    fn = "computeOverallPct" =>
        LET K == Present(arg)
            n == Cardinality(K)
            sum == CountedSum(arg, K) IN
        /\ ret.t = "number"
        /\ ret.n % 10 = 0
        /\ ret.n >= 0 /\ ret.n <= 1000
        /\ n = 0 => ret = Num(0)
        /\ n > 0 => /\ 2 * (ret.n * n - sum) <= 10 * n
                    /\ 2 * (sum - ret.n * n) <= 10 * n

C8_Witness ==
    /\ fn = "computeOverallPct"
    /\ Cardinality(Present(arg)) = 2
    /\ Cardinality(DOMAIN arg.intervals) = 2
    /\ CountedSum(arg, Present(arg)) = 1810
    /\ ret = Num(910)

\* what the claim calls a non-numeric or absent input
NonNumeric(v) == v.t \in {"undefined", "NaN"} \/ (v.t = "string" /\ ToNumber(v) = NaN)

InRange(v) == v.t = "number" /\ v.n >= 0 /\ v.n <= 1000

StoredPctInRange ==
    Normalized => \A k \in DOMAIN ret.intervals : InRange(ret.intervals[k].pct_time)

\* C9 as stated: clampPct(v) is in [0,100]; a number below 0 gives 0, a number
\* above 100 gives 100, a number in the range is returned unchanged, a
\* non-numeric or absent input gives 0; every stored pct_time is in [0,100].
C9_AsStated ==
    /\ StoredPctInRange
    /\ fn = "clampPct" =>
        /\ InRange(ret)
        /\ (IsNumber(arg) /\ NumLess(arg, Num(0))) => ret = Num(0)
        /\ (IsNumber(arg) /\ NumLess(Num(1000), arg)) => ret = Num(1000)
        /\ InRange(arg) => ret = arg
        /\ NonNumeric(arg) => ret = Num(0)

\* C9 amended: as stated, but only a FINITE number above 100 gives 100;
\* Infinity, like -Infinity and NaN, gives 0.
C9_ClampPct ==
    /\ StoredPctInRange
    /\ fn = "clampPct" =>
        /\ InRange(ret)
        /\ (IsNumber(arg) /\ NumLess(arg, Num(0))) => ret = Num(0)
        /\ (IsFinite(arg) /\ NumLess(Num(1000), arg)) => ret = Num(1000)
        /\ arg = PosInf => ret = Num(0)
        /\ InRange(arg) => ret = arg
        /\ NonNumeric(arg) => ret = Num(0)

C9_Witness ==
    /\ fn = "clampPct"
    /\ arg = PosInf
    /\ ret = Num(0)

-----------------------------------------------------------------------------
(* Properties of the page, checked under Spec *)

\* C6: in every reachable state, each entry of backfillProgressMap and of
\* indicatorProgressMap holds the state (and status text) the status reducer
\* gives for that same entry's interval map.
C6_StateRederivable ==
    /\ \A name \in DOMAIN backfillProgressMap :
          LET sp == backfillProgressMap[name]
              r == BackfillReduce(sp.intervals) IN
          sp.state = r.state /\ sp.status = r.status
    /\ \A name \in DOMAIN indicatorProgressMap :
          LET sp == indicatorProgressMap[name]
              r == IndicatorReduce(sp.intervals) IN
          sp.state = r.state /\ sp.status = r.status

\* both maps are filled, after a failed poll, and hold entries of different
\* derived states, one of them over an interval outside the fixed list
C6_Witness ==
    /\ last.kind = "failure"
    /\ DOMAIN backfillProgressMap = {"BTCUSDT", "ETHUSDT"}
    /\ backfillProgressMap["BTCUSDT"].state = "SUCCESS"
    /\ backfillProgressMap["ETHUSDT"].state = "FAILURE"
    /\ "5m" \in DOMAIN backfillProgressMap["ETHUSDT"].intervals
    /\ DOMAIN indicatorProgressMap = {"BTCUSDT", "ETHUSDT"}
    /\ indicatorProgressMap["ETHUSDT"].state = "UNKNOWN"

\* C10: after a response without run_id (absent or null) the engine's
\* progress state is empty, for each of the four fetchers, whatever it held
\* before and whatever the response's symbols field contains.
C10_NoRunIdClears ==
    (last.kind = "response" /\ last.noRunId) => ProgressOf(last.engine) = <<>>

\* a websocket response with a null run_id and a filled symbols field reached
\* a page that held websocket progress
C10_Witness ==
    /\ last.engine = "websocket"
    /\ last.kind = "response"
    /\ last.noRunId /\ last.sentSymbols /\ last.hadData
    /\ websocketProgress = <<>>

-----------------------------------------------------------------------------
(* The normalizer and foreign interval keys, checked under SpecPure.        *)

\* the symbol payload sym without the records under keys outside INTERVAL_ORDER
KnownOnly(sym) ==
    [sym EXCEPT !.intervals =
        [k \in DOMAIN sym.intervals \cap IntervalKeys |-> sym.intervals[k]]]

\* C11: the interval map of a normalized SymbolProgress has only keys of the
\* fixed list 1h, 4h, 1d, 1w, 1M; a record the payload carries under any other
\* key is not put in the map and has no influence on the derived state and
\* status, which are those of the payload without that record.
C11_OnlyKnownIntervals ==
    Normalized =>
        /\ DOMAIN ret.intervals \subseteq IntervalKeys
        /\ LET clean == IF fn = "backfillSymbol"
                        THEN BackfillSymbolProgress(KnownOnly(arg))
                        ELSE IndicatorSymbolProgress(KnownOnly(arg)) IN
           ret.state = clean.state /\ ret.status = clean.status

-----------------------------------------------------------------------------
(* Polling and the panels, checked under SpecPoll.                          *)

-----------------------------------------------------------------------------
(* Failures, closing and late responses, checked under Spec.                *)

\* the step is the catch block of engine e's fetcher
FailureStep(e) ==
    /\ inflight'[e] < inflight[e]
    /\ last'.kind = "failure"
    /\ last'.engine = e

\* C13: when a request to a progress endpoint fails, the engine's in-memory
\* progress state after the failure is exactly the state before it, for each
\* of the four endpoints (backfill, REST, indicator, websocket).
C13_FailureRetainsState ==
    [][\A e \in Engines : FailureStep(e) => ProgressOf(e)' = ProgressOf(e)]_vars

\* C15: when a progress panel closes, the progress state of that engine is
\* cleared: after the close it holds no symbol.
C15_CloseClearsState ==
    [][\A e \in Engines :
          (showPanel[e] /\ ~showPanel'[e]) => ProgressOf(e)' = <<>>]_vars

\* C16: a response that arrives after its panel was closed (the timer was
\* cleared while the request was in flight) is unused: it leaves the engine's
\* progress state as it was at the moment of the close.
C16_LateResponseUnused ==
    [][\A e \in PanelPolled :
          (~showPanel[e] /\ ~timer[e] /\ inflight'[e] < inflight[e])
              => ProgressOf(e)' = ProgressOf(e)]_vars

-----------------------------------------------------------------------------
(* Visibility and outstanding requests, checked under SpecPoll.             *)

C17_AsStated ==
    \A e \in Engines : inflight[e] <= 1

\* C17: no poller waits for its earlier requests: whenever an engine's timer
\* is armed and the document is visible, its interval callback issues a
\* request, however many requests to that endpoint are unresolved (up to the
\* bound on the requests in flight), so an endpoint has several outstanding
\* requests when responses take longer than the polling interval.
C17_TickIgnoresOutstanding ==
    \A e \in Engines :
        (timer[e] /\ ~documentHidden /\ Outstanding < MaxInFlight)
            => ENABLED Tick(e)

\* the indicator poller's interval callback has issued a second request while
\* the first is unresolved
C17_Witness ==
    /\ watch = "issue"
    /\ seen = [by |-> "tick", poller |-> "indicator", hidden |-> FALSE]
    /\ inflight["indicator"] = 2

-----------------------------------------------------------------------------
(* The pollers side by side, checked under SpecFrame.                       *)

\* C19: a response or a failure on one engine's progress endpoint changes
\* only that engine's progress state: the progress state of the other three
\* engines, pipelineActive and engineStatus are as before, in every
\* interleaving of the four progress pollers and the status poller.
C19_PollersIndependent ==
    [][\A e \in Engines :
          inflight'[e] < inflight[e] =>
              /\ \A o \in Engines \ {e} : ProgressOf(o)' = ProgressOf(o)
              /\ pipelineActive' = pipelineActive
              /\ engineStatus' = engineStatus]_vars

\* every poller has had a response and every engine holds its data: the
\* responses applied last have left the data of the others in place
C19_Witness ==
    /\ watch = "frame"
    /\ \A e \in Engines : ProgressOf(e) # <<>>
    /\ pipelineActive = Bool(TRUE)
    /\ engineStatus # <<>>
    /\ \A p \in Pollers : inflight[p] = 0

-----------------------------------------------------------------------------
(* Polling after a failure, checked under SpecPoll.                         *)

\* poller p is meant to run: its panel is open or, for the backfill and
\* status pollers, the login is valid
PollingOn(p) == IF p \in PanelPolled THEN showPanel[p] ELSE auth = "valid"

\* C20: a failed poll neither stops nor delays polling: after a poller's
\* request has failed, while its panel stays open (for the backfill and status
\* pollers, while the page stays authenticated) its timer is still armed, and
\* while the document is visible every tick of it issues a request (as far as
\* the bound on the requests in flight goes).
C20_FailureKeepsPolling ==
    watch = "fail" =>
        \A p \in Pollers :
            (seen.failed = p /\ PollingOn(p)) =>
                /\ timer[p]
                /\ (p \in Engines /\ ~documentHidden /\ Outstanding < MaxInFlight)
                       => ENABLED Tick(p)
                /\ (p = "status" /\ ~documentHidden
                                 /\ inflight["status"] < MaxInFlight)
                       => ENABLED StatusTick

\* a request of the REST poller failed, and a later tick of it has issued
\* the request that is now outstanding
C20_Witness ==
    /\ watch = "fail"
    /\ seen = [failed |-> "rest", polled |-> TRUE]
    /\ showPanel["rest"]
    /\ inflight["rest"] > 0

-----------------------------------------------------------------------------
(* Responses out of order, checked under SpecRace.                          *)

\* C18: responses are applied in arrival order with no recency check: when
\* request A is issued before request B and A's response arrives after B's,
\* the state after both responses is the normalization of A's (older)
\* payload.
C18_ArrivalOrderWins ==
    (watch = "race" /\ seen.kind = "response" /\ seen.stale)
        => backfillProgressMap = BackfillNext(seen.data)

\* B's response was applied, then A's: the map is that of A's payload, which
\* differs from that of B's
C18_Witness ==
    /\ watch = "race"
    /\ seen.kind = "response"
    /\ seen.stale
    /\ pending = <<>>
    /\ backfillProgressMap = BackfillNext(seen.data)
    /\ backfillProgressMap # BackfillNext(seen.newer)
    /\ BackfillNext(seen.newer) # <<>>
    /\ backfillProgressMap # <<>>


-----------------------------------------------------------------------------
(* The order form, checked under SpecOrder.                                 *)

\* a quotient that is a number greater than 0
PositiveNumber(q) == q.t = "number" /\ q.n * q.d > 0

\* C21: handleOrderSubmit calls placeOrder only with a quantity that is a
\* number greater than 0, whatever the amount field, the price field, the
\* mark price (initially '0.00') and the order type hold.
C21_QuantityPositive ==
    (orders.by = "handleOrderSubmit" /\ orders.sent)
        => PositiveNumber(orders.body.quantity)


-----------------------------------------------------------------------------
(* The admin actions, checked under SpecAdmin and SpecAdminFair.            *)

\* C22: every run of handleRegisterSymbols, handleStartCollection or
\* handleStopCollection that sets loading to true ends with loading false
\* again, whether its POST succeeds or fails.
C22_LoadingEnds == loading ~> ~loading

\* a run whose POST failed has ended and the buttons are enabled again
C22_Witness == seen = "on rejected" /\ post = "none" /\ ~loading


\* an order POST leaves the page in this step
OrderPosted == orders' # orders /\ orders'.sent

\* C23: handleOrderSubmit, handleMarketClose and submitLimitClose issue their
\* POST only when userData.google_id and selectedAccount are both present, and
\* the request carries that google_id and the id of the account selected at
\* that moment.
C23_PostNeedsUserAndAccount ==
    [][OrderPosted =>
          /\ Truthy(GoogleIdOf(tradingPage.userData))
          /\ tradingPage.selectedAccount # Null
          /\ orders'.body.google_id = tradingPage.userData.google_id
          /\ orders'.body.account_id = tradingPage.selectedAccount.id]_vars

\* a limit close was posted for the second account, which the user selected
C23_Witness ==
    /\ orders.sent
    /\ orders.by = "submitLimitClose"
    /\ orders.body.account_id = 2
    /\ tradingPage.selectedAccount = Account(2)


-----------------------------------------------------------------------------
(* The protected routes, checked under SpecRoute.                           *)

\* localStorage holds a jwt_token that decodes and whose exp is later than now
HoldsValidToken ==
    /\ localStorage # Null
    /\ localStorage.t = "jwt"
    /\ localStorage.exp.t = "number"
    /\ localStorage.exp.n > 10 * now

\* ProtectedRoute decides what a protected path shows
RouteDecided ==
    /\ rendered = "routing"
    /\ location.path \in ProtectedPaths
    /\ rendered' # "routing"

\* C24: ProtectedRoute renders the protected routes exactly when localStorage
\* holds a jwt_token that decodes and whose exp is later than now, and then
\* leaves localStorage as it is; otherwise it redirects to '/', and a token
\* that is expired, has no exp or cannot be decoded is removed.
C24_ProtectedIffValidToken ==
    [][RouteDecided =>
          IF HoldsValidToken
          THEN /\ rendered' = PageOf(location.path)
               /\ location' = location
               /\ localStorage' = localStorage
          ELSE /\ rendered' = "App"
               /\ location'.path = "/"
               /\ localStorage' = Null]_vars

\* the admin page is shown for a token that is still valid after a second
C24_Witness ==
    /\ rendered = "AdminPage"
    /\ localStorage = Jwt(Num(30))
    /\ now = 2


\* the user arrives at /main with a valid token in the jwt_token parameter
\* of the URL and no token in localStorage
ArrivesWithUrlToken ==
    /\ location.path = "/main"
    /\ location.jwt_token # Null
    /\ location.jwt_token.t = "jwt"
    /\ location.jwt_token.exp.t = "number"
    /\ location.jwt_token.exp.n > 10 * now
    /\ localStorage = Null

\* C30: a user who arrives at /main with a valid token in the jwt_token
\* parameter and no token in localStorage is shown MainPage, which stores the
\* token and removes the parameter: ProtectedRoute does not redirect to '/'
\* before MainPage stored the token.
C30_ArrivalReachesMainPage ==
    [][(ArrivesWithUrlToken /\ RouteDecided) => rendered' = "MainPage"]_vars


\* C25: the toggle posts /pipeline/on only when the local pipelineActive is
\* not true and /pipeline/off only when it is true; a successful on sets
\* pipelineActive to true, a successful off and a failed on set it to false,
\* and a failed off leaves it unchanged.
C25_ToggleFollowsLocalFlag ==
    [][/\ (post # "on" /\ post' = "on") => pipelineActive # Bool(TRUE)
       /\ (post # "off" /\ post' = "off") => pipelineActive = Bool(TRUE)
       /\ (post = "on" /\ seen' = "on resolved")
              => pipelineActive' = Bool(TRUE)
       /\ (post = "on" /\ seen' = "on rejected")
              => pipelineActive' = Bool(FALSE)
       /\ (post = "off" /\ seen' = "off resolved")
              => pipelineActive' = Bool(FALSE)
       /\ (post = "off" /\ seen' = "off rejected")
              => pipelineActive' = pipelineActive]_vars

\* a stop failed and the page still shows the pipeline as active
C25_Witness ==
    seen = "off rejected" /\ pipelineActive = Bool(TRUE) /\ server.active


\* a response of GET /pipeline/status is applied in this step
StatusApplied == seen' = "status" /\ inflight'["status"] < inflight["status"]

\* C27: once POST /pipeline/on succeeded and no stop was requested,
\* pipelineActive stays true as long as the server runs the pipeline: a
\* /pipeline/status response whose request was issued before the start took
\* effect does not set pipelineActive back to false.
C27_StartSurvivesStatus ==
    [][(server.active /\ isPipelineActive /\ post # "off" /\ StatusApplied)
          => pipelineActive' = Bool(TRUE)]_vars


-----------------------------------------------------------------------------
(* The overall percentage of a stored symbol, checked under SpecPure.       *)

\* C26: a symbol of a progress map whose derived state is SUCCESS has
\* computeOverallPct 100, for every payload, payloads with interval keys
\* outside 1h, 4h, 1d, 1w, 1M included.
C26_SuccessIsHundred ==
    (fn = "computeOverallPct" /\ arg.state = "SUCCESS") => ret = Num(1000)


-----------------------------------------------------------------------------
(* Leverage, checked under SpecSend and SpecLeverage.                       *)

\* C28: the leverage sent with an order is between 1 and maxLeverage, also
\* after the brackets have loaded and replaced the default maxLeverage of 125
\* with the first bracket's initial_leverage while leverage still holds its
\* default of 20 or a value confirmed earlier.
C28_LeverageWithinMax ==
    [][(OrderPosted /\ orders'.by = "handleOrderSubmit")
          => /\ orders'.body.leverage >= 1
             /\ orders'.body.leverage <= tradingPage.maxLeverage]_vars

\* the bracket the claim names for a leverage: the one with the smallest
\* initial_leverage that is still at least lev, if any
AllowingBrackets(lev) ==
    {i \in DOMAIN tradingPage.brackets :
        lev <= tradingPage.brackets[i].initial_leverage}

SmallestAllowing(lev) ==
    CHOOSE i \in AllowingBrackets(lev) :
        \A j \in AllowingBrackets(lev) :
            tradingPage.brackets[i].initial_leverage
                <= tradingPage.brackets[j].initial_leverage

\* C29: getMaxPositionForLeverage(lev), with brackets ordered from the
\* highest initial_leverage to the lowest, returns the max_notional of the
\* bracket with the smallest initial_leverage that is still at least lev,
\* and null when no bracket allows lev or none is loaded.
C29_SmallestAllowingBracket ==
    LET lev == tradingPage.tempLeverage IN
    tradingPage.isLeverageModalOpen =>
        getMaxPositionForLeverage(lev) =
            IF AllowingBrackets(lev) = {} THEN Null
            ELSE Num(10 * tradingPage.brackets[SmallestAllowing(lev)].max_notional)

====
